---- MODULE Spec2Model ----
(***************************************************************************)
(* Market-data simulation and chart viewport of the trading terminal.      *)
(*                                                                         *)
(* App (src/StatsBar.tsx): appReducer / createInitialState / seedCandles / *)
(* tickCandles keep one LiveAssetState per asset; a TICK is dispatched by  *)
(* a setInterval timer.  CandleChart (src/CandleChart.tsx) keeps the       *)
(* viewport (zoomIndex, scrollOffset, drag state, indicator toggles) and   *)
(* derives the visible slice from the series it is handed.                 *)
(*                                                                         *)
(* Numbers.  Prices are fixed-point integers in units of 0.001 (so the     *)
(* base price 1.085 is 1085); a product with a fraction is rounded down.   *)
(* Date.now() is counted in ms from an epoch that is a whole number of     *)
(* hours, which commutes with every bucket computation                     *)
(* floor(t / pMs) * pMs because every period divides one hour.             *)
(* Math.random() is a draw (2k + 1) / (2 RandDen), the midpoint of the     *)
(* k-th of RandDen equal parts of [0, 1), for k in 0 .. RandDen-1.         *)
(***************************************************************************)
EXTENDS Integers, Sequences, FiniteSets, TLC

(* ------------------------------ bounds --------------------------------- *)
\* how many entries of ASSETS (a prefix of the list) are modelled
NumAssets == 2
\* events (TICKs of the timer and user input events) per behaviour
MaxEvents == 2
\* resolution of a Math.random() draw
RandDen == 4
\* Date.now() when createInitialState runs: more than one tick before an
\* hour boundary, and less than one tick before a minute boundary that is no
\* boundary of the longer periods
StartTimes == {3599000, 3659600}
\* hidden state of the random generator when the history is seeded
Seeds == {1, 2}
\* the draws a TICK may make for an asset's shock
TickDraws == {0, RandDen - 1}
\* clientX of a mouse event, and the button of a mouse-down (0 is the left)
PointerXs == {200, 440}
PointerY == 100
Buttons == {0, 2}
\* clientWidth of the chart container
ContainerWidth == 884
\* resolution of Math.sqrt
SqrtScale == 100
\* arguments of the indicator functions: close prices, series lengths, periods
CloseValues == {1, 2, 3}
MaxData == 4
MinPeriod == 0 - 1
MaxPeriod == 3
\* ticks fed to tickCandles on its own: prices, and lengths of a feed
FeedPrices == {100, 101}
MaxFeed == 3
MaxFill == 502
FillBatch == 50

\* x of the cursor over the plot area, in pixels from the container's left
CursorXs == {9 + 6 * k : k \in 0 .. 133}

\* closes of the displayed slices of single frames: steady prices one unit
\* apart, and a series that jumps at its last candle; the current price at
\* or above the last close, an entry price below it
AxisLevels == {100, 101}
AxisSplits == {10}
AxisJump == [from |-> 1, to |-> 21, at |-> 19]
AxisCurrentAbove == {0, 2}
AxisEntryBelow == {1}
\* prices of slices of a single candle with high = low
AxisFlat == {0, 100}

\* clientX of the pointer during drags
DragXs == {200, 440, 680}
\* prices a frame may hold, in whole units
FramePrices == {1, 2, 3, 5, 8}

(* ------------------------ program constants ---------------------------- *)
TF_SECONDS == <<60, 300, 900, 3600>>
TF_OPTIONS == <<"1m", "5m", "15m", "1H">>
ZOOM_LEVELS == <<20, 30, 50, 70, 100, 140, 200>>
MAX_CANDLES == 500
SEED_COUNT == 500
TICK_INTERVAL == 800
INITIAL_ZOOM_INDEX == 4
PRICE_SCALE == 1000
INITIAL_BALANCE == 1000 * PRICE_SCALE
MAX_CLOSED_TRADES == 50
INITIAL_AMOUNT == 25 * PRICE_SCALE
INITIAL_EXPIRY == 60
BOLL_MULT == 2
BOLL_PERIOD == 20

\* ASSETS with basePrice in units of 1 / PRICE_SCALE and payout in percent
ASSETS ==
  << [id |-> "btcusd", payout |-> 82, basePrice |-> 64000000],
     [id |-> "ethusd", payout |-> 80, basePrice |-> 3200000],
     [id |-> "eurusd", payout |-> 78, basePrice |-> 1085],
     [id |-> "gbpusd", payout |-> 79, basePrice |-> 1265],
     [id |-> "xauusd", payout |-> 81, basePrice |-> 2300000],
     [id |-> "spx500", payout |-> 77, basePrice |-> 5200000] >>

AssetIdx == 1 .. (IF NumAssets < Len(ASSETS) THEN NumAssets ELSE Len(ASSETS))
AssetIds == {ASSETS[i].id : i \in AssetIdx}
ASSET_MAP == [id \in AssetIds |-> CHOOSE a \in {ASSETS[i] : i \in AssetIdx} : a.id = id]
TfSet == {TF_SECONDS[i] : i \in 1 .. Len(TF_SECONDS)}
TF_LABEL_MAP == [l \in {TF_OPTIONS[i] : i \in 1 .. Len(TF_OPTIONS)} |->
                   TF_SECONDS[CHOOSE i \in 1 .. Len(TF_OPTIONS) : TF_OPTIONS[i] = l]]

(* ------------------------------- state --------------------------------- *)
VARIABLES
  liveAssets,       \* AppState.liveAssets: id -> [price, candlesByTf]
  balance,          \* AppState.balance
  openTrades,       \* AppState.openTrades
  closedTrades,     \* AppState.closedTrades
  lastResult,       \* AppState.lastResult
  totalDeposited,   \* AppState.totalDeposited
  totalWithdrawn,   \* AppState.totalWithdrawn
  depositRecords,   \* AppState.depositRecords
  withdrawRecords,  \* AppState.withdrawRecords
  referralData,     \* AppState.referralData: referrals and totalEarnings
  amount,           \* App: useState(25)
  expirySeconds,    \* App: useState(60)
  placed,           \* history: trades placed so far
  settled,          \* history: id and payout of every settlement so far
  activeAssetId,    \* App: useState(ASSETS[0].id)
  timeframe,        \* App: useState("1m")
  zoomIndex,        \* CandleChart: useState(4), index into ZOOM_LEVELS from 0
  scrollOffset,     \* CandleChart: useState(0)
  activeIndicators, \* CandleChart: useState(new Set())
  isDragging,       \* CandleChart: useState(false)
  dragStartRef,     \* CandleChart: useRef(null), {x, offset} during a drag
  mousePos,         \* CandleChart: useState(null)
  clock,            \* Date.now() at start-up, then action.now of the latest TICK
  ticks,            \* TICK actions so far
  events,           \* events so far: TICKs and user input events
  calc,             \* a call of a pure function of the chart: its arguments and results
  replay            \* a series built by tickCandles alone, with the ticks fed to it

selection == <<activeAssetId, timeframe>>
viewport == <<zoomIndex, scrollOffset, activeIndicators, isDragging, dragStartRef, mousePos>>
\* the account fields of AppState besides the balance
account == <<totalDeposited, totalWithdrawn, depositRecords, withdrawRecords, referralData>>
\* the order form of the trading panel
order == <<amount, expirySeconds>>
vars == <<liveAssets, balance, openTrades, closedTrades, lastResult, account, order,
          placed, settled, activeAssetId, timeframe, zoomIndex, scrollOffset, activeIndicators, isDragging,
          dragStartRef, mousePos, clock, ticks, events, calc, replay>>
\* what the application itself never touches
harness == <<calc, replay>>

\* a nullable value is the empty sequence (null) or a one-element sequence
Null == << >>
Some(v) == << v >>

(* ------------------------------ helpers -------------------------------- *)
Max(a, b) == IF a >= b THEN a ELSE b
Min(a, b) == IF a <= b THEN a ELSE b

\* floor(a * n / d) for d > 0, without forming a * n
MulDiv(a, n, d) == (a \div d) * n + ((a % d) * n) \div d

\* Math.floor(now / pMs) * pMs
Bucket(now, pMs) == (now \div pMs) * pMs

\* 1000 * Math.sqrt(periodSec / 60), rounded down
SqrtMilli(periodSec) ==
  LET x == MulDiv(1000000, periodSec, 60)
  IN CHOOSE r \in 0 .. 10000 : r * r <= x /\ (r + 1) * (r + 1) > x

\* the n-th Math.random() draw (its k) of a generator started in state seed
Draw(seed, n) == ((n * n + 3 * n + 5 * seed + (n \div 7)) \div 2) % RandDen

(* --------------------------- candle series ----------------------------- *)
\* the body of the loop of seedCandles for one value of i (count down to 1):
\* price is the previous close, n the number of draws consumed before it
seedCandle(i, price, vol, periodSec, now, seed, n) ==
  LET pMs == periodSec * 1000
      time == Bucket(now - i * pMs, pMs)
      open == price
      drift == MulDiv(vol, 2 * Draw(seed, n) + 1 - RandDen, 2 * RandDen)
      close == open + drift
      high == Max(open, close) + MulDiv(Max(open, close), 6 * (2 * Draw(seed, n + 1) + 1), 20000 * RandDen)
      low == Min(open, close) - MulDiv(Min(open, close), 6 * (2 * Draw(seed, n + 2) + 1), 20000 * RandDen)
  IN [time |-> time, open |-> open, high |-> high, low |-> low, close |-> close]

\* the candles pushed by the iterations i = from, from - 1, .. , to of the
\* loop, entered with the previous close price and n draws consumed.  The
\* run is evaluated in two halves, the second entered with the last close of
\* the first, which is the loop's order of evaluation
RECURSIVE seedLoop(_, _, _, _, _, _, _, _)
seedLoop(from, to, price, vol, periodSec, now, seed, n) ==
  IF from < to THEN << >>
  ELSE IF from = to THEN << seedCandle(from, price, vol, periodSec, now, seed, n) >>
  ELSE LET mid == (from + to + 1) \div 2
           first == seedLoop(from, mid, price, vol, periodSec, now, seed, n)
           rest == seedLoop(mid - 1, to, first[Len(first)].close, vol, periodSec, now,
                            seed, n + 3 * (from - mid + 1))
       IN first \o rest

\* seedCandles(basePrice, periodSec, count) run at Date.now() = now with the
\* random generator in state seed, n draws already consumed; vol, which the
\* loop recomputes to the same value each time round, is computed once
seedCandles(basePrice, periodSec, count, now, seed, n) ==
  LET vol == MulDiv(MulDiv(basePrice, 3, 1000), SqrtMilli(periodSec), 1000)
  IN seedLoop(count, 1, basePrice, vol, periodSec, now, seed, n)

\* the array handed to tickCandles as the call leaves it, had the call
\* worked on the array itself (arr = candles): the update or the push shows
tickCandlesGivenShared(candles, periodSec, newPrice, now) ==
  LET pMs == periodSec * 1000
      bucket == Bucket(now, pMs)
      len == Len(candles)
  IN IF len > 0 /\ candles[len].time = bucket
     THEN [candles EXCEPT ![len] =
             [@ EXCEPT !.close = newPrice,
                       !.high = Max(candles[len].high, newPrice),
                       !.low = Min(candles[len].low, newPrice)]]
     ELSE Append(candles,
             [time |-> bucket,
              open |-> IF len > 0 THEN candles[len].close ELSE newPrice,
              high |-> newPrice, low |-> newPrice, close |-> newPrice])

\* the array handed to tickCandles as the call leaves it: arr is a copy
\* (candles.slice()) and the last candle is replaced in arr by a new object
tickCandlesGiven(candles, periodSec, newPrice, now) == candles

\* tickCandles pushing a candle that opens at the new price
tickCandlesOpenAtPrice(candles, periodSec, newPrice, now) ==
  LET pMs == periodSec * 1000
      bucket == Bucket(now, pMs)
      len == Len(candles)
      arr == IF len > 0 /\ candles[len].time = bucket
             THEN [candles EXCEPT ![len] =
                     [@ EXCEPT !.close = newPrice,
                               !.high = Max(candles[len].high, newPrice),
                               !.low = Min(candles[len].low, newPrice)]]
             ELSE Append(candles,
                     [time |-> bucket, open |-> newPrice,
                      high |-> newPrice, low |-> newPrice, close |-> newPrice])
  IN IF Len(arr) > MAX_CANDLES
     THEN SubSeq(arr, Len(arr) - MAX_CANDLES + 1, Len(arr))
     ELSE arr

\* tickCandles taking the bucket of Date.now() in place of that of now
tickCandlesWallClock(candles, periodSec, newPrice, now) ==
  LET pMs == periodSec * 1000
      bucket == Bucket(clock, pMs)
      len == Len(candles)
      arr == IF len > 0 /\ candles[len].time = bucket
             THEN [candles EXCEPT ![len] =
                     [@ EXCEPT !.close = newPrice,
                               !.high = Max(candles[len].high, newPrice),
                               !.low = Min(candles[len].low, newPrice)]]
             ELSE Append(candles,
                     [time |-> bucket,
                      open |-> IF len > 0 THEN candles[len].close ELSE newPrice,
                      high |-> newPrice, low |-> newPrice, close |-> newPrice])
  IN IF Len(arr) > MAX_CANDLES
     THEN SubSeq(arr, Len(arr) - MAX_CANDLES + 1, Len(arr))
     ELSE arr

\* tickCandles capping with arr.slice(0, 500): the oldest are kept
tickCandlesKeepOldest(candles, periodSec, newPrice, now) ==
  LET pMs == periodSec * 1000
      bucket == Bucket(now, pMs)
      len == Len(candles)
      arr == IF len > 0 /\ candles[len].time = bucket
             THEN [candles EXCEPT ![len] =
                     [@ EXCEPT !.close = newPrice,
                               !.high = Max(candles[len].high, newPrice),
                               !.low = Min(candles[len].low, newPrice)]]
             ELSE Append(candles,
                     [time |-> bucket,
                      open |-> IF len > 0 THEN candles[len].close ELSE newPrice,
                      high |-> newPrice, low |-> newPrice, close |-> newPrice])
  IN IF Len(arr) > MAX_CANDLES THEN SubSeq(arr, 1, MAX_CANDLES) ELSE arr

\* tickCandles whose update of the current bucket leaves close as it was
tickCandlesStaleClose(candles, periodSec, newPrice, now) ==
  LET pMs == periodSec * 1000
      bucket == Bucket(now, pMs)
      len == Len(candles)
      arr == IF len > 0 /\ candles[len].time = bucket
             THEN [candles EXCEPT ![len] =
                     [@ EXCEPT !.high = Max(candles[len].high, newPrice),
                               !.low = Min(candles[len].low, newPrice)]]
             ELSE Append(candles,
                     [time |-> bucket,
                      open |-> IF len > 0 THEN candles[len].close ELSE newPrice,
                      high |-> newPrice, low |-> newPrice, close |-> newPrice])
  IN IF Len(arr) > MAX_CANDLES
     THEN SubSeq(arr, Len(arr) - MAX_CANDLES + 1, Len(arr))
     ELSE arr

tickCandles(candles, periodSec, newPrice, now) ==
  LET pMs == periodSec * 1000
      bucket == Bucket(now, pMs)
      len == Len(candles)
      arr == IF len > 0 /\ candles[len].time = bucket
             THEN [candles EXCEPT ![len] =
                     [@ EXCEPT !.close = newPrice,
                               !.high = Max(candles[len].high, newPrice),
                               !.low = Min(candles[len].low, newPrice)]]
             ELSE Append(candles,
                     [time |-> bucket,
                      open |-> IF len > 0 THEN candles[len].close ELSE newPrice,
                      high |-> newPrice, low |-> newPrice, close |-> newPrice])
  IN IF Len(arr) > MAX_CANDLES
     THEN SubSeq(arr, Len(arr) - MAX_CANDLES + 1, Len(arr))
     ELSE arr

(* ------------------------- createInitialState -------------------------- *)
\* the history of the k-th timeframe of the a-th asset is the
\* ((a-1) * 4 + k)-th call of seedCandles, each call making 3 draws a candle
createInitialState(now, seed) ==
  [i \in AssetIdx |->
     [id |-> ASSETS[i].id,
      price |-> ASSETS[i].basePrice,
      candlesByTf |->
        [tf \in TfSet |->
           LET k == CHOOSE j \in 1 .. Len(TF_SECONDS) : TF_SECONDS[j] = tf
               call == (i - 1) * Len(TF_SECONDS) + (k - 1)
           IN seedCandles(ASSETS[i].basePrice, tf, SEED_COUNT, now, seed,
                          call * 3 * SEED_COUNT)]]]

AppStart ==
  /\ clock \in StartTimes
  /\ \E seed \in Seeds :
        LET st == createInitialState(clock, seed)
        IN liveAssets = [id \in AssetIds |->
                          st[CHOOSE i \in AssetIdx : ASSETS[i].id = id]]
  /\ balance = INITIAL_BALANCE
  /\ openTrades = << >>
  /\ closedTrades = << >>
  /\ lastResult = Null
  /\ totalDeposited = 0
  /\ totalWithdrawn = 0
  /\ depositRecords = << >>
  /\ withdrawRecords = << >>
  /\ referralData = [referrals |-> << >>, totalEarnings |-> 0]
  /\ amount = INITIAL_AMOUNT
  /\ expirySeconds = INITIAL_EXPIRY
  /\ placed = 0
  /\ settled = << >>
  /\ activeAssetId = ASSETS[1].id
  /\ timeframe = "1m"
  /\ zoomIndex = INITIAL_ZOOM_INDEX
  /\ scrollOffset = 0
  /\ activeIndicators = {}
  /\ isDragging = FALSE
  /\ dragStartRef = Null
  /\ mousePos = Null
  /\ ticks = 0
  /\ events = 0

Init ==
  /\ AppStart
  /\ calc = Null
  /\ replay = Null

(* ------------------------------ TICK ----------------------------------- *)
\* NextPrice computing prev * shock in place of prev * (1 + shock)
NextPriceNoBase(prev, k) ==
  LET nextPrice == MulDiv(prev, (2 * k + 1 - RandDen) * 8, RandDen * 10000)
  IN IF nextPrice <= 0 THEN prev ELSE nextPrice

\* shock = (Math.random() - 0.5) * 2 * 0.0008 for the draw k;
\* nextPrice = prev * (1 + shock), kept at prev when not a positive number
NextPrice(prev, k) ==
  LET nextPrice == prev + MulDiv(prev, (2 * k + 1 - RandDen) * 8, RandDen * 10000)
  IN IF nextPrice <= 0 THEN prev ELSE nextPrice

\* TickLive leaving its loop after the first asset
TickLiveFirstOnly(live, draw, now) ==
  [id \in AssetIds |->
     LET prev == live[id]
         nextPrice == NextPrice(prev.price, draw[id])
     IN IF id # ASSETS[1].id THEN prev
        ELSE [id |-> id,
              price |-> nextPrice,
              candlesByTf |-> [tf \in TfSet |->
                                 tickCandles(prev.candlesByTf[tf], tf, nextPrice, now)]]]

\* the first loop of the TICK case: every asset, every timeframe
TickLive(live, draw, now) ==
  [id \in AssetIds |->
     LET prev == live[id]
         nextPrice == NextPrice(prev.price, draw[id])
     IN [id |-> id,
         price |-> nextPrice,
         candlesByTf |-> [tf \in TfSet |->
                            tickCandles(prev.candlesByTf[tf], tf, nextPrice, now)]]]

\* the second loop of the TICK case folded over state.openTrades from index i:
\* acc = [balance, remaining, closed, lastResult]
RECURSIVE SettleTrades(_, _, _, _, _)
SettleTrades(trades, i, updatedLive, now, acc) ==
  IF Len(acc.remaining) >= 0 /\ i > Len(trades) THEN acc
  ELSE LET trade == trades[i]
           expiryTime == trade.openTime + trade.expirySeconds * 1000
           exitPrice == updatedLive[trade.assetId].price
           isWin == IF trade.direction = "CALL" THEN exitPrice > trade.entryPrice
                                                ELSE exitPrice < trade.entryPrice
           pnl == IF isWin THEN MulDiv(trade.amount, trade.payoutFactor, 100)
                           ELSE 0 - trade.amount
       IN IF now >= expiryTime
          THEN SettleTrades(trades, i + 1, updatedLive, now,
                 [balance |-> IF isWin
                              THEN acc.balance + trade.amount
                                     + MulDiv(trade.amount, trade.payoutFactor, 100)
                              ELSE acc.balance,
                  remaining |-> acc.remaining,
                  closed |-> Append(acc.closed,
                               [id |-> trade.id, asset |-> trade.assetId,
                                direction |-> trade.direction, amount |-> trade.amount,
                                payout |-> pnl, entryPrice |-> trade.entryPrice,
                                exitPrice |-> exitPrice, openedAt |-> trade.openTime,
                                closedAt |-> expiryTime]),
                  lastResult |-> Some([status |-> IF isWin THEN "WIN" ELSE "LOSS",
                                       payout |-> pnl])])
          ELSE SettleTrades(trades, i + 1, updatedLive, now,
                 [acc EXCEPT !.remaining = Append(acc.remaining, trade)])

\* the cut keeping the oldest records: closed.slice(0, cap)
KeepFirst(closed, cap) ==
  IF Len(closed) > cap THEN SubSeq(closed, 1, cap) ELSE closed

\* closed.length > cap ? closed.slice(-cap) : closed
KeepLast(closed, cap) ==
  IF Len(closed) > cap THEN SubSeq(closed, Len(closed) - cap + 1, Len(closed))
  ELSE closed

\* an event is taken while the budget of events lasts
Event ==
  /\ events < MaxEvents
  /\ events' = events + 1
  /\ UNCHANGED harness

\* the TICK case of appReducer for action.now = now and the given draws
TickAt(draw, now) ==
  /\ LET updatedLive == TickLive(liveAssets, draw, now)
         result == SettleTrades(openTrades, 1, updatedLive, now,
                     [balance |-> balance, remaining |-> << >>,
                      closed |-> closedTrades, lastResult |-> lastResult])
         closed == result.closed
         new == SubSeq(closed, Len(closedTrades) + 1, Len(closed))
     IN /\ clock' = now
        /\ liveAssets' = updatedLive
        /\ openTrades' = result.remaining
        /\ closedTrades' = KeepLast(closed, MAX_CLOSED_TRADES)
        /\ balance' = result.balance
        /\ lastResult' = result.lastResult
        /\ settled' = settled \o [i \in 1 .. Len(new) |->
                                    [id |-> new[i].id, payout |-> new[i].payout]]
  /\ ticks' = ticks + 1
  /\ UNCHANGED <<account, order, placed, selection, viewport>>

\* dispatch({ type: "TICK", now: Date.now() }) from the interval timer
Tick ==
  /\ Event
  /\ \E draw \in [AssetIds -> TickDraws] : TickAt(draw, clock + TICK_INTERVAL)

(* ------------------------ numbers of the indicators -------------------- *)
\* A number of the indicator library is a fraction <<n, d>> in lowest terms
\* with d >= 0: <<n, 1>> is the integer n, <<1, 0>> and <<-1, 0>> are
\* +Infinity and -Infinity, <<0, 0>> is NaN.  Rounding of floating-point
\* arithmetic is left out; division by zero gives what IEEE 754 gives.
Abs(x) == IF x < 0 THEN 0 - x ELSE x
Sign(x) == IF x > 0 THEN 1 ELSE IF x < 0 THEN 0 - 1 ELSE 0

RECURSIVE GCD(_, _)
GCD(a, b) == IF b = 0 THEN a ELSE GCD(b, a % b)

Norm(n, d) ==
  IF d = 0 THEN <<Sign(n), 0>>
  ELSE LET g == GCD(Abs(n), Abs(d))
       IN <<Sign(d) * Sign(n) * (Abs(n) \div g), Abs(d) \div g>>

R(x) == <<x, 1>>
NaN == <<0, 0>>
IsFinite(a) == a[2] # 0
RNeg(a) == <<0 - a[1], a[2]>>
RAdd(a, b) ==
  IF a[2] = 0 /\ b[2] = 0
  THEN (IF a[1] = b[1] THEN a ELSE NaN)
  ELSE LET g == GCD(a[2], b[2])
       IN Norm(a[1] * (b[2] \div g) + b[1] * (a[2] \div g), (a[2] \div g) * b[2])
RSub(a, b) == RAdd(a, RNeg(b))
\* common factors are taken out before the products are formed
RMul(a, b) ==
  LET g == GCD(Abs(a[1]), b[2])
      h == GCD(Abs(b[1]), a[2])
      g1 == IF g = 0 THEN 1 ELSE g
      h1 == IF h = 0 THEN 1 ELSE h
  IN Norm((a[1] \div g1) * (b[1] \div h1), (a[2] \div h1) * (b[2] \div g1))
RDiv(a, b) == RMul(a, Norm(b[2], b[1]))

\* floor of the square root of x >= 0, by bisection of lo .. hi
RECURSIVE ISqrtIn(_, _, _)
ISqrtIn(x, lo, hi) ==
  IF lo >= hi THEN lo
  ELSE LET mid == (lo + hi + 1) \div 2
       IN IF mid * mid <= x THEN ISqrtIn(x, mid, hi) ELSE ISqrtIn(x, lo, mid - 1)

\* Math.sqrt rounded down to a multiple of 1 / SqrtScale of the denominator
\* (exact on the square of a fraction)
RSqrt(a) ==
  IF a[2] = 0 THEN (IF a[1] > 0 THEN a ELSE NaN)
  ELSE IF a[1] < 0 THEN NaN
  ELSE LET s == SqrtScale
       IN Norm(ISqrtIn(a[1] * a[2] * s * s, 0, 46340), a[2] * s)

(* ----------------------- indicator calculations ------------------------ *)
\* s = data[a] + ... + data[b] of the inner for loops (0 when a > b)
RECURSIVE SumRange(_, _, _)
SumRange(data, a, b) == IF a > b THEN 0 ELSE data[b] + SumRange(data, a, b - 1)

\* calcSMA with the guard i < period
calcSMALate(data, period) ==
  [i \in 1 .. Len(data) |->
     IF i - 1 < period THEN Null
     ELSE Some(RDiv(R(SumRange(data, i - period + 1, i)), R(period)))]

\* r[i] of calcSMA for the index i, counted from 1
calcSMA(data, period) ==
  [i \in 1 .. Len(data) |->
     IF i - 1 < period - 1 THEN Null
     ELSE Some(RDiv(R(SumRange(data, i - period + 1, i)), R(period)))]

\* the loop of calcEMA with the update data[i] * k + ema
RECURSIVE emaLoopNoDecay(_, _, _, _, _)
emaLoopNoDecay(data, period, i, ema, r) ==
  IF i > Len(data) THEN r
  ELSE IF i - 1 < period - 1
  THEN emaLoopNoDecay(data, period, i + 1, ema, Append(r, Null))
  ELSE LET k == RDiv(R(2), R(period + 1))
           next == IF ema = Null
                   THEN RDiv(R(SumRange(data, i - period + 1, i)), R(period))
                   ELSE RAdd(RMul(R(data[i]), k), ema[1])
       IN emaLoopNoDecay(data, period, i + 1, Some(next), Append(r, Some(next)))

\* the loop of calcEMA from index i on, ema being Null before the seed
RECURSIVE emaLoop(_, _, _, _, _)
emaLoop(data, period, i, ema, r) ==
  IF i > Len(data) THEN r
  ELSE IF i - 1 < period - 1 THEN emaLoop(data, period, i + 1, ema, Append(r, Null))
  ELSE LET k == RDiv(R(2), R(period + 1))
           next == IF ema = Null
                   THEN RDiv(R(SumRange(data, i - period + 1, i)), R(period))
                   ELSE RAdd(RMul(R(data[i]), k), RMul(ema[1], RSub(R(1), k)))
       IN emaLoop(data, period, i + 1, Some(next), Append(r, Some(next)))

calcEMA(data, period) == emaLoop(data, period, 1, Null, << >>)

\* the inner loop of calcBollinger from j on: v += (data[j] - mid) ** 2
RECURSIVE SumSqFrom(_, _, _, _, _)
SumSqFrom(data, mid, j, b, v) ==
  IF v[2] >= 0 /\ j > b THEN v
  ELSE LET dev == RSub(R(data[j]), mid)
       IN SumSqFrom(data, mid, j + 1, b, RAdd(v, RMul(dev, dev)))

\* v = sum of (data[j] - mid) ** 2 for j = a .. b
SumSq(data, mid, a, b) == SumSqFrom(data, mid, a, b, R(0))

calcBollinger(data, period, mult) ==
  LET mid == calcSMA(data, period)
      std(i) == RSqrt(RDiv(SumSq(data, mid[i][1], i - period + 1, i), R(period)))
  IN [mid |-> mid,
      upper |-> [i \in 1 .. Len(data) |->
                   IF mid[i] = Null THEN Null
                   ELSE Some(RAdd(mid[i][1], RMul(R(mult), std(i))))],
      lower |-> [i \in 1 .. Len(data) |->
                   IF mid[i] = Null THEN Null
                   ELSE Some(RSub(mid[i][1], RMul(R(mult), std(i))))]]

\* the seeding loop of calcRSI: the sums of gains and of losses of the
\* differences data[i] - data[i - 1] for i = 1 .. period, counted from 0
RECURSIVE rsiSeed(_, _, _)
rsiSeed(data, i, acc) ==
  IF i < 1 THEN acc
  ELSE LET d == data[i + 1] - data[i]
           rest == rsiSeed(data, i - 1, acc)
       IN IF d > 0 THEN [rest EXCEPT !.ag = @ + d]
          ELSE [rest EXCEPT !.al = @ + Abs(d)]

\* 100 - 100 / (1 + rs) with rs = al === 0 ? 100 : ag / al
rsiValue(ag, al) ==
  LET rs == IF al = R(0) THEN R(100) ELSE RDiv(ag, al)
  IN RSub(R(100), RDiv(R(100), RAdd(R(1), rs)))

\* the main loop of calcRSI from index i on, counted from 0
RECURSIVE rsiLoop(_, _, _, _, _, _)
rsiLoop(data, period, i, ag, al, r) ==
  IF i >= Len(data) THEN r
  ELSE IF i < period THEN rsiLoop(data, period, i + 1, ag, al, Append(r, Null))
  ELSE IF i = period
  THEN rsiLoop(data, period, i + 1, ag, al, Append(r, Some(rsiValue(ag, al))))
  ELSE LET \* data[-1] is undefined and d is NaN, neither > 0 nor < 0
           d == IF i = 0 THEN 0 ELSE data[i + 1] - data[i]
           g == IF d > 0 THEN d ELSE 0
           l == IF d < 0 THEN Abs(d) ELSE 0
           ag2 == RDiv(RAdd(RMul(ag, R(period - 1)), R(g)), R(period))
           al2 == RDiv(RAdd(RMul(al, R(period - 1)), R(l)), R(period))
       IN rsiLoop(data, period, i + 1, ag2, al2, Append(r, Some(rsiValue(ag2, al2))))

calcRSI(data, period) ==
  IF Len(data) < period + 1 THEN [i \in 1 .. Len(data) |-> Null]
  ELSE LET seed == rsiSeed(data, period, [ag |-> 0, al |-> 0])
       IN rsiLoop(data, period, 0, RDiv(R(seed.ag), R(period)),
                  RDiv(R(seed.al), R(period)), << >>)

(* ----------------------- CandleChart: derived ------------------------- *)
IndicatorTypes == {"SMA", "EMA", "BOLL", "VOL", "RSI"}

\* App: activeLive.candlesByTf[tfSeconds], the series handed to the chart
candles == liveAssets[activeAssetId].candlesByTf[TF_LABEL_MAP[timeframe]]
currentPrice == liveAssets[activeAssetId].price

VisibleCount(zi) == ZOOM_LEVELS[zi + 1]
MaxOffset(total, count) == Max(0, total - count)
\* clampedOffset taken to be the stored scrollOffset
ClampedOffsetRaw(offset, maxOff) == offset
ClampedOffset(offset, maxOff) == Min(offset, maxOff)

visibleCount == VisibleCount(zoomIndex)
totalCandles == Len(candles)
maxOffset == MaxOffset(totalCandles, visibleCount)
clampedOffset == ClampedOffset(scrollOffset, maxOffset)
isAtLatest == clampedOffset = 0

\* candles.slice(startIdx, endIdx), indices from 0, end exclusive
Slice(seq, startIdx, endIdx) ==
  LET from == Min(Max(startIdx, 0), Len(seq))
      to == Min(Max(endIdx, 0), Len(seq))
  IN SubSeq(seq, from + 1, to)

DisplayCandles(cs, count, offset) ==
  LET endIdx == Len(cs) - offset
      startIdx == Max(0, endIdx - count)
  IN Slice(cs, startIdx, endIdx)

displayCandles == DisplayCandles(candles, visibleCount, clampedOffset)

\* the minimap's highlighted indices read from the stored scrollOffset
MinimapViewStored(total, offset, count) ==
  [from |-> Max(0, total - scrollOffset - count),
   to |-> Min(total, total - scrollOffset)]

\* the minimap: indices Math.max(0, viewStart) up to, not including,
\* Math.min(totalCandles, viewEnd) are highlighted
MinimapView(total, offset, count) ==
  [from |-> Max(0, total - offset - count),
   to |-> Min(total, total - offset)]

minimapView == MinimapView(totalCandles, clampedOffset, visibleCount)

\* vpX - leftPad and vpW as fractions of the minimap's width mmW
VpX(view, total) == RDiv(R(view.from), R(total))
VpW(view, total) == RDiv(R(view.to - view.from), R(total))

(* ------------------- CandleChart: price axis of a frame ---------------- *)
\* the layout of the canvas: topPad, bottomTimeBar, minimapH, the height
\* of a sub panel, and the container's height less panels and minimap
TOP_PAD == 6
BOTTOM_TIME_BAR == 22
MINIMAP_H == 28
SUB_PANEL_H == 60
BASE_CHART_HEIGHT == 340
RIGHT_PAD == 76
LEFT_PAD == 8

chartHeight(subPanelCount) == BASE_CHART_HEIGHT + subPanelCount * SUB_PANEL_H + MINIMAP_H
mainChartBottom(H, subPanelCount) ==
  H - BOTTOM_TIME_BAR - (IF subPanelCount > 0 THEN SUB_PANEL_H * subPanelCount ELSE 0)
    - MINIMAP_H
mainChartH(H, subPanelCount) == mainChartBottom(H, subPanelCount) - TOP_PAD

SetMax(S) == CHOOSE x \in S : \A y \in S : y <= x
SetMin(S) == CHOOSE x \in S : \A y \in S : x <= y

\* hi, lo and range of a frame whose prices are allPrices
FrameHi(allPrices) == RMul(R(SetMax(allPrices)), Norm(1001, 1000))
FrameLo(allPrices) == RMul(R(SetMin(allPrices)), Norm(999, 1000))
\* range without the fallback
FrameRangeNoFallback(hi, lo) == RSub(hi, lo)

\* hi - lo || 1: the fallback is taken when hi - lo is 0 or NaN
FrameRange(hi, lo) ==
  LET span == RSub(hi, lo)
  IN IF span = R(0) \/ span = NaN THEN R(1) ELSE span

\* yToPrice computed as lo + ((y - topPad) / mainChartH) * range
yToPriceFromLo(y, hi, lo, range, height) ==
  RAdd(lo, RMul(RDiv(RSub(y, R(TOP_PAD)), R(height)), range))

priceToY(p, hi, lo, range, height) ==
  RSub(R(TOP_PAD + height), RMul(RDiv(RSub(p, lo), range), R(height)))
yToPrice(y, hi, lo, range, height) ==
  RSub(hi, RMul(RDiv(RSub(y, R(TOP_PAD)), R(height)), range))

(* ------------------- CandleChart: candle axis of a frame --------------- *)
\* a < b and the larger of two finite fractions
RLess(a, b) ==
  LET g == GCD(a[2], b[2])
      g1 == IF g = 0 THEN 1 ELSE g
  IN a[1] * (b[2] \div g1) < b[1] * (a[2] \div g1)
RMax(a, b) == IF RLess(a, b) THEN b ELSE a
\* Math.round of a finite fraction: the floor of a + 1/2
MathRound(a) == (2 * a[1] + a[2]) \div (2 * a[2])

\* cw, gap, fw and ox of the canvas effect for a container W wide
CandleW(W, numDisplayed) ==
  RMax(R(2), RMul(RDiv(R(W - RIGHT_PAD - LEFT_PAD), R(Max(20, numDisplayed))),
                  Norm(3, 4)))
CandleGap(cw) == RMax(R(1), RMul(cw, Norm(1, 4)))
FullW(W, numDisplayed) ==
  RAdd(CandleW(W, numDisplayed), CandleGap(CandleW(W, numDisplayed)))
OriginX(W, numDisplayed) ==
  RSub(R(W - RIGHT_PAD), RMul(R(numDisplayed), FullW(W, numDisplayed)))

xForCandle(i, ox, fw) == RAdd(ox, RMul(R(i), fw))
\* candleIdx of the crosshair: Math.round((mx - ox) / fw)
CandleIdx(mx, ox, fw) == MathRound(RDiv(RSub(mx, ox), fw))
\* the crosshair is drawn: the cursor is inside the plot area
InPlot(mx, my, W, bottom) ==
  /\ mx > LEFT_PAD /\ mx < W - RIGHT_PAD
  /\ my > TOP_PAD /\ my < bottom

(* ------------------- CandleChart: prices of a frame -------------------- *)
\* Math.max(...S) and Math.min(...S) of a non-empty set of numbers
RSetMax(S) == IF NaN \in S THEN NaN ELSE CHOOSE x \in S : \A y \in S : ~RLess(x, y)
RSetMin(S) == IF NaN \in S THEN NaN ELSE CHOOSE x \in S : \A y \in S : ~RLess(y, x)

\* the non-null entries of an indicator line
Defined(line) == {line[i][1] : i \in {j \in 1 .. Len(line) : line[j] # Null}}

\* allPrices without the current price at the latest view
AllPricesNoCurrent(slice, atLatest, current, entryPrice, indicators) ==
  LET closes == [i \in 1 .. Len(slice) |-> slice[i].close]
      boll == calcBollinger(closes, BOLL_PERIOD, BOLL_MULT)
  IN UNION {{R(slice[i].high), R(slice[i].low)} : i \in 1 .. Len(slice)}
       \cup (IF entryPrice # Null THEN {R(entryPrice[1])} ELSE {})
       \cup (IF "BOLL" \in indicators
             THEN Defined(boll.upper) \cup Defined(boll.lower) ELSE {})

\* allPrices of the canvas effect, as a set
AllPrices(slice, atLatest, current, entryPrice, indicators) ==
  LET closes == [i \in 1 .. Len(slice) |-> slice[i].close]
      boll == calcBollinger(closes, BOLL_PERIOD, BOLL_MULT)
  IN UNION {{R(slice[i].high), R(slice[i].low)} : i \in 1 .. Len(slice)}
       \cup (IF atLatest THEN {R(current)} ELSE {})
       \cup (IF entryPrice # Null THEN {R(entryPrice[1])} ELSE {})
       \cup (IF "BOLL" \in indicators
             THEN Defined(boll.upper) \cup Defined(boll.lower) ELSE {})

\* hi and lo of the canvas effect
AxisHi(allPrices) == RMul(RSetMax(allPrices), Norm(1001, 1000))
AxisLo(allPrices) == RMul(RSetMin(allPrices), Norm(999, 1000))

(* ----------------------- CandleChart: actions ------------------------- *)
\* no handler of the chart, and no setter of App's selection, dispatches to
\* appReducer: AppState and the tick clock stay as they are
appState == <<liveAssets, balance, openTrades, closedTrades, lastResult, account, order,
              placed, settled>>

\* the updater of scrollBy without its upper clamp
ScrollToNoUpper(prev, delta, maxOff) == Max(0, prev + delta)

\* the updater of scrollBy: prev => max(0, min(maxOffset, prev + delta))
ScrollTo(prev, delta, maxOff) == Max(0, Min(maxOff, prev + delta))

scrollBy(delta) ==
  /\ scrollOffset' = ScrollTo(scrollOffset, delta, maxOffset)
  /\ UNCHANGED <<appState, clock, ticks, selection, zoomIndex, activeIndicators,
                 isDragging, dragStartRef, mousePos>>

\* the updater of handleZoomIn without its clamp
ZoomInIndexNoClamp(i) == i - 1
ZoomInIndex(i) == Max(0, i - 1)
ZoomOutIndex(i) == Min(Len(ZOOM_LEVELS) - 1, i + 1)

\* key "+" or "=", and the toolbar's "+" (disabled only where it changes nothing)
handleZoomIn ==
  /\ zoomIndex' = ZoomInIndex(zoomIndex)
  /\ UNCHANGED <<appState, clock, ticks, selection, scrollOffset, activeIndicators,
                 isDragging, dragStartRef, mousePos>>

\* key "-", and the toolbar's "-"
handleZoomOut ==
  /\ zoomIndex' = ZoomOutIndex(zoomIndex)
  /\ UNCHANGED <<appState, clock, ticks, selection, scrollOffset, activeIndicators,
                 isDragging, dragStartRef, mousePos>>

\* key "End", the toolbar's LIVE button and the floating "Jump to Live"
goToLatest ==
  /\ scrollOffset' = 0
  /\ UNCHANGED <<appState, clock, ticks, selection, zoomIndex, activeIndicators,
                 isDragging, dragStartRef, mousePos>>

\* goToOldest storing the number of candles, past the largest offset
goToOldestPastEnd ==
  /\ scrollOffset' = totalCandles
  /\ UNCHANGED <<appState, clock, ticks, selection, zoomIndex, activeIndicators,
                 isDragging, dragStartRef, mousePos>>

\* key "Home", and the toolbar's oldest button
goToOldest ==
  /\ scrollOffset' = maxOffset
  /\ UNCHANGED <<appState, clock, ticks, selection, zoomIndex, activeIndicators,
                 isDragging, dragStartRef, mousePos>>

\* Math.max(1, Math.floor(visibleCount * f)) for f = 0.2, 0.05, 0.5
KeyStep(count) == Max(1, (count * 2) \div 10)
WheelStep(count) == Max(1, (count * 5) \div 100)
ToolbarStep(count) == Max(1, (count * 5) \div 10)

KeyArrowLeft == scrollBy(KeyStep(visibleCount))
KeyArrowRight == scrollBy(0 - KeyStep(visibleCount))

\* the wheel handler with Math.sign(delta) = sign
Wheel(sign) == scrollBy(sign * WheelStep(visibleCount))

\* the toolbar's scroll buttons, disabled at the ends
ToolbarScrollLeft ==
  /\ ~(clampedOffset >= maxOffset)
  /\ scrollBy(ToolbarStep(visibleCount))

ToolbarScrollRight ==
  /\ ~isAtLatest
  /\ scrollBy(0 - ToolbarStep(visibleCount))

toggleIndicator(ind) ==
  /\ activeIndicators' = IF ind \in activeIndicators
                          THEN activeIndicators \ {ind}
                          ELSE activeIndicators \cup {ind}
  /\ UNCHANGED <<appState, clock, ticks, selection, zoomIndex, scrollOffset,
                 isDragging, dragStartRef, mousePos>>

\* a timeframe button that leaves the scroll position where it was
SetTimeframeKeepOffset(tf) ==
  /\ timeframe' = tf
  /\ UNCHANGED <<appState, clock, ticks, activeAssetId, zoomIndex, scrollOffset,
                 activeIndicators, isDragging, dragStartRef, mousePos>>

\* a timeframe button: onTimeframeChange(tf); setScrollOffset(0)
SetTimeframe(tf) ==
  /\ timeframe' = tf
  /\ scrollOffset' = 0
  /\ UNCHANGED <<appState, clock, ticks, activeAssetId, zoomIndex, activeIndicators,
                 isDragging, dragStartRef, mousePos>>

\* selecting an asset seeds its history afresh
SelectAssetReseed(id) ==
  /\ activeAssetId' = id
  /\ liveAssets' = [liveAssets EXCEPT ![id].candlesByTf =
                      [tf \in TfSet |->
                         seedCandles(ASSET_MAP[id].basePrice, tf, SEED_COUNT, clock, 1, 0)]]
  /\ UNCHANGED <<balance, openTrades, closedTrades, lastResult, account, order,
                 placed, settled, clock, ticks, timeframe, viewport>>

\* AssetSelector / RunningTrades: setActiveAssetId(id)
SelectAsset(id) ==
  /\ activeAssetId' = id
  /\ UNCHANGED <<appState, clock, ticks, timeframe, viewport>>

\* Math.round(dx / candleWidth) with candleWidth = chartW / count
CandlesDragged(dx, chartW, count) == (2 * dx * count + chartW) \div (2 * chartW)

handleMouseDown(button, x) ==
  /\ IF button # 0
     THEN UNCHANGED <<isDragging, dragStartRef>>
     ELSE /\ isDragging' = TRUE
          /\ dragStartRef' = Some([x |-> x, offset |-> clampedOffset])
  /\ UNCHANGED <<appState, clock, ticks, selection, zoomIndex, scrollOffset,
                 activeIndicators, mousePos>>

\* handleDragMove adding the candle delta to the offset of the last frame
DragOffsetCumulative(start, x, count, maxOff) ==
  LET chartW == ContainerWidth - 84
      dx == x - start.x
  IN Max(0, Min(maxOff, scrollOffset + CandlesDragged(dx, chartW, count)))

\* handleDragMove: the offset a drag to clientX = x sets
DragOffset(start, x, count, maxOff) ==
  LET chartW == ContainerWidth - 84
      dx == x - start.x
  IN Max(0, Min(maxOff, start.offset + CandlesDragged(dx, chartW, count)))

\* handleMouseMove, the container at the window's left edge
handleMouseMove(x) ==
  /\ mousePos' = Some([x |-> x, y |-> PointerY])
  /\ IF isDragging /\ dragStartRef # Null
     THEN scrollOffset' = DragOffset(dragStartRef[1], x, visibleCount, maxOffset)
     ELSE UNCHANGED scrollOffset
  /\ UNCHANGED <<appState, clock, ticks, selection, zoomIndex, activeIndicators,
                 isDragging, dragStartRef>>

\* handleMouseUp, and the window's mouseup listener
handleMouseUp ==
  /\ isDragging' = FALSE
  /\ dragStartRef' = Null
  /\ UNCHANGED <<appState, clock, ticks, selection, zoomIndex, scrollOffset,
                 activeIndicators, mousePos>>

handleMouseLeave ==
  /\ mousePos' = Null
  /\ UNCHANGED <<appState, clock, ticks, selection, zoomIndex, scrollOffset,
                 activeIndicators, isDragging, dragStartRef>>

(* --------------------------- App: the ledger --------------------------- *)
WITHDRAW_FEES == [USDT |-> PRICE_SCALE, BTC |-> 5 * PRICE_SCALE, ETH |-> 3 * PRICE_SCALE,
                  TRX |-> PRICE_SCALE \div 2]
\* REFERRAL_RATE = 0.005, in thousandths
REFERRAL_RATE == 5

Directions == {"CALL", "PUT"}
\* amounts set in the order form, deposited and withdrawn; expiry buttons
\* pressed; coins withdrawn
OrderAmounts == {PRICE_SCALE}
DepositAmounts == {100 * PRICE_SCALE}
WithdrawAmounts == {500 * PRICE_SCALE}
ExpiryChoices == {300}
WithdrawCoins == {"USDT"}
\* the time from one TICK to the next: the interval, or longer when the
\* timer was held up
TickDelays == {TICK_INTERVAL, 61000}
\* clicks on a trade button in a row, and the button clicked
BurstDirections == {"CALL"}
Burst == 51
\* ledger events per behaviour
MaxLedger == 3

\* the App state that handlePlaceTrade reads and writes
OrderState == [balance |-> balance, openTrades |-> openTrades, lastResult |-> lastResult,
               amount |-> amount, placed |-> placed]

\* the PLACE_TRADE case leaving the balance as it is
PlaceTradeBalanceKept(bal, amt) == bal

\* the PLACE_TRADE case: state.balance - action.trade.amount
PlaceTradeBalance(bal, amt) == bal - amt

\* inv = Math.max(1, Math.min(amount, state.balance))
Investment(amt, bal) == Max(PRICE_SCALE, Min(amt, bal))

\* handlePlaceTrade(direction) at Date.now() = now, and the PLACE_TRADE it
\* dispatches; the random suffix of the id is that of the n-th trade placed
PlaceOnce(st, direction, now) ==
  LET inv == Investment(st.amount, st.balance)
      trade == [id |-> <<now, st.placed + 1>>, assetId |-> activeAssetId,
                direction |-> direction, amount |-> inv,
                payoutFactor |-> ASSET_MAP[activeAssetId].payout,
                entryPrice |-> liveAssets[activeAssetId].price,
                openTime |-> now, expirySeconds |-> expirySeconds]
  IN IF inv <= 0 \/ inv > st.balance THEN st
     ELSE [balance |-> PlaceTradeBalance(st.balance, trade.amount),
           openTrades |-> Append(st.openTrades, trade),
           lastResult |-> Some([status |-> "PENDING", payout |-> 0]),
           amount |-> inv, placed |-> st.placed + 1]

\* n calls of handlePlaceTrade(direction) one after the other, evaluated
\* in two halves, the second entered with the state the first leaves
RECURSIVE PlaceTimes(_, _, _, _)
PlaceTimes(st, direction, now, n) ==
  IF n = 0 THEN st
  ELSE IF n = 1 THEN PlaceOnce(st, direction, now)
  ELSE LET first == PlaceTimes(st, direction, now, n \div 2)
       IN IF first.placed >= 0 THEN PlaceTimes(first, direction, now, n - n \div 2)
          ELSE first

PlaceClicks(direction, n) ==
  /\ LET st == PlaceTimes(OrderState, direction, clock, n)
     IN /\ balance' = st.balance
        /\ openTrades' = st.openTrades
        /\ lastResult' = st.lastResult
        /\ amount' = st.amount
        /\ placed' = st.placed
  /\ UNCHANGED <<liveAssets, closedTrades, account, expirySeconds, settled, clock, ticks,
                 selection, viewport>>

\* a click on the CALL or the PUT button of the trading panel
handlePlaceTrade(direction) == PlaceClicks(direction, 1)

\* Burst clicks on the same button before the next TICK
PlaceBurst(direction) == PlaceClicks(direction, Burst)

\* TradingPanel: onAmountChange(v)
setAmount(v) ==
  /\ amount' = v
  /\ UNCHANGED <<liveAssets, balance, openTrades, closedTrades, lastResult, account,
                 expirySeconds, placed, settled, clock, ticks, selection, viewport>>

\* TradingPanel: onExpiryChange(sec)
setExpirySeconds(sec) ==
  /\ expirySeconds' = sec
  /\ UNCHANGED <<liveAssets, balance, openTrades, closedTrades, lastResult, account,
                 amount, placed, settled, clock, ticks, selection, viewport>>

\* handleDeposit and the ADD_DEPOSIT it dispatches
handleDeposit(depositAmount) ==
  /\ IF depositAmount <= 0
     THEN UNCHANGED <<balance, totalDeposited, depositRecords>>
     ELSE /\ balance' = balance + depositAmount
          /\ totalDeposited' = totalDeposited + depositAmount
          /\ depositRecords' = Append(depositRecords,
                                 [amount |-> depositAmount, status |-> "pending",
                                  createdAt |-> clock])
  /\ UNCHANGED <<liveAssets, openTrades, closedTrades, lastResult, totalWithdrawn,
                 withdrawRecords, referralData, order, placed, settled, clock, ticks,
                 selection, viewport>>

\* handleWithdraw and the ADD_WITHDRAW it dispatches
handleWithdraw(withdrawAmount, coin) ==
  /\ IF withdrawAmount <= 0 \/ withdrawAmount > balance
     THEN UNCHANGED <<balance, totalWithdrawn, withdrawRecords>>
     ELSE LET fee == WITHDRAW_FEES[coin]
          IN /\ balance' = balance - withdrawAmount
             /\ totalWithdrawn' = totalWithdrawn + withdrawAmount
             /\ withdrawRecords' = Append(withdrawRecords,
                                     [coin |-> coin, amount |-> withdrawAmount,
                                      fee |-> fee,
                                      netAmount |-> Max(0, withdrawAmount - fee),
                                      status |-> "pending", createdAt |-> clock])
  /\ UNCHANGED <<liveAssets, openTrades, closedTrades, lastResult, totalDeposited,
                 depositRecords, referralData, order, placed, settled, clock, ticks,
                 selection, viewport>>

\* handleSimulateReferral for the draw k of tradeVolume = 200 + random * 2000,
\* and the ADD_REFERRAL it dispatches
handleSimulateReferral(k) ==
  /\ LET tradeVolume == 200 * PRICE_SCALE
                          + MulDiv(2000 * PRICE_SCALE, 2 * k + 1, 2 * RandDen)
         commission == MulDiv(tradeVolume, REFERRAL_RATE, 1000)
     IN /\ balance' = balance + commission
        /\ referralData' =
             [referrals |-> Append(referralData.referrals,
                              [tradeVolume |-> tradeVolume, commission |-> commission]),
              totalEarnings |-> referralData.totalEarnings + commission]
  /\ UNCHANGED <<liveAssets, openTrades, closedTrades, lastResult, totalDeposited,
                 totalWithdrawn, depositRecords, withdrawRecords, order, placed, settled,
                 clock, ticks, selection, viewport>>

(* --------------------------- specifications ---------------------------- *)
\* every event source, MaxEvents events deep
Next ==
  \/ Tick
  \/ Event /\ handleZoomIn
  \/ Event /\ handleZoomOut
  \/ Event /\ goToLatest
  \/ Event /\ goToOldest
  \/ Event /\ KeyArrowLeft
  \/ Event /\ KeyArrowRight
  \/ Event /\ \E sign \in {-1, 0, 1} : Wheel(sign)
  \/ Event /\ ToolbarScrollLeft
  \/ Event /\ ToolbarScrollRight
  \/ Event /\ \E button \in Buttons, x \in PointerXs : handleMouseDown(button, x)
  \/ Event /\ \E x \in PointerXs : handleMouseMove(x)
  \/ Event /\ handleMouseUp
  \/ Event /\ handleMouseLeave
  \/ Event /\ \E ind \in IndicatorTypes : toggleIndicator(ind)
  \/ Event /\ \E i \in 1 .. Len(TF_OPTIONS) : SetTimeframe(TF_OPTIONS[i])
  \/ Event /\ \E id \in AssetIds : SelectAsset(id)

Spec == Init /\ [][Next]_vars

\* the ledger: trades, TICKs on time and late, deposits, withdrawals and
\* referral credits, MaxLedger events deep
LedgerEvent ==
  /\ events < MaxLedger
  /\ events' = events + 1
  /\ UNCHANGED harness

NextLedger ==
  \/ LedgerEvent /\ \E direction \in Directions : handlePlaceTrade(direction)
  \/ LedgerEvent /\ \E direction \in BurstDirections : PlaceBurst(direction)
  \/ LedgerEvent /\ \E v \in OrderAmounts : setAmount(v)
  \/ LedgerEvent /\ \E sec \in ExpiryChoices : setExpirySeconds(sec)
  \/ LedgerEvent /\ \E a \in DepositAmounts : handleDeposit(a)
  \/ LedgerEvent /\ \E a \in WithdrawAmounts, coin \in WithdrawCoins : handleWithdraw(a, coin)
  \/ LedgerEvent /\ \E k \in {0} : handleSimulateReferral(k)
  \/ LedgerEvent /\ \E k \in TickDraws, delay \in TickDelays :
                      TickAt([id \in AssetIds |-> k], clock + delay)

\* one start time and one seed: the ledger does not read the seeded history
InitLedger ==
  /\ Init
  /\ \A t \in StartTimes : clock <= t
  /\ LET seed == CHOOSE x \in Seeds : \A y \in Seeds : x <= y
         st == createInitialState(clock, seed)
     IN liveAssets = [id \in AssetIds |-> st[CHOOSE i \in AssetIdx : ASSETS[i].id = id]]

SpecLedger == InitLedger /\ [][NextLedger]_vars

\* keyboard navigation to any depth, before the first TICK, from the
\* start-up states of one start time
InitNav == Init /\ \A t \in StartTimes : clock <= t

NextNav ==
  \/ UNCHANGED <<events, harness>> /\ handleZoomIn
  \/ UNCHANGED <<events, harness>> /\ handleZoomOut
  \/ UNCHANGED <<events, harness>> /\ goToLatest
  \/ UNCHANGED <<events, harness>> /\ goToOldest
  \/ UNCHANGED <<events, harness>> /\ KeyArrowLeft
  \/ UNCHANGED <<events, harness>> /\ KeyArrowRight

SpecNav == InitNav /\ [][NextNav]_vars

\* drags to any depth, before the
\* first TICK, from the start-up states of one start time
NextDrag ==
  \/ UNCHANGED <<events, harness>> /\ \E button \in Buttons, x \in DragXs : handleMouseDown(button, x)
  \/ UNCHANGED <<events, harness>> /\ \E x \in DragXs : handleMouseMove(x)
  \/ UNCHANGED <<events, harness>> /\ handleMouseUp
  \/ UNCHANGED <<events, harness>> /\ handleMouseLeave

SpecDrag == InitNav /\ [][NextDrag]_vars

\* the indicator library called on its own: any short series of closes and
\* any period, then the four functions applied to them
Datas(n) == UNION {[1 .. k -> CloseValues] : k \in 0 .. n}

InitCalc ==
  /\ AppStart
  /\ \A t \in StartTimes : clock <= t
  /\ replay = Null
  /\ \E data \in Datas(MaxData), period \in MinPeriod .. MaxPeriod :
        calc = Some([data |-> data, period |-> period, out |-> Null])

Calculate ==
  /\ calc # Null
  /\ calc[1].out = Null
  /\ LET data == calc[1].data
         period == calc[1].period
     IN calc' = Some([calc[1] EXCEPT !.out =
                  Some([sma |-> calcSMA(data, period),
                        ema |-> calcEMA(data, period),
                        boll |-> calcBollinger(data, period, BOLL_MULT),
                        rsi |-> calcRSI(data, period)])])
  /\ UNCHANGED <<appState, selection, viewport, clock, ticks, events, replay>>

NextCalc == Calculate

SpecCalc == InitCalc /\ [][NextCalc]_vars

\* the price axis of single frames: any set of positive prices (highs,
\* lows, current price, entry price, band values) and any set of sub panels
InitFrame ==
  /\ AppStart
  /\ \A t \in StartTimes : clock <= t
  /\ replay = Null
  /\ \E allPrices \in (SUBSET FramePrices) \ {{}}, subPanelCount \in 0 .. 2 :
        calc = Some([allPrices |-> allPrices, subPanelCount |-> subPanelCount,
                     out |-> Null])

\* the canvas effect up to the definitions of priceToY and yToPrice, both
\* applied to lo, hi, every price of the frame and the middle of the range
RenderFrame ==
  /\ calc # Null
  /\ calc[1].out = Null
  /\ LET allPrices == calc[1].allPrices
         height == mainChartH(chartHeight(calc[1].subPanelCount), calc[1].subPanelCount)
         hi == FrameHi(allPrices)
         lo == FrameLo(allPrices)
         range == FrameRange(hi, lo)
         points == {lo, hi, RDiv(RAdd(lo, hi), R(2))} \cup {R(p) : p \in allPrices}
     IN calc' = Some([calc[1] EXCEPT !.out =
                  Some([hi |-> hi, lo |-> lo, range |-> range, height |-> height,
                        y |-> [p \in points |-> priceToY(p, hi, lo, range, height)],
                        price |-> [p \in points |->
                                     yToPrice(priceToY(p, hi, lo, range, height),
                                              hi, lo, range, height)]])])
  /\ UNCHANGED <<appState, selection, viewport, clock, ticks, events, replay>>

NextFrame == RenderFrame

SpecFrame == InitFrame /\ [][NextFrame]_vars

\* the crosshair of single frames: any zoom level's number of candles and
\* any cursor x across the plot area, no drag going on
InitCrosshair ==
  /\ AppStart
  /\ \A t \in StartTimes : clock <= t
  /\ replay = Null
  /\ \E zi \in 0 .. Len(ZOOM_LEVELS) - 1, mx \in CursorXs :
        calc = Some([numDisplayed |-> VisibleCount(zi), mx |-> mx, my |-> PointerY,
                     out |-> Null])

\* the canvas effect's crosshair block: candleIdx, whether the crosshair is
\* drawn, whether displayCandles[candleIdx] is read, and candleIdx at the x
\* of every candle of the slice
RenderCrosshair ==
  /\ calc # Null
  /\ calc[1].out = Null
  /\ LET n == calc[1].numDisplayed
         fw == FullW(ContainerWidth, n)
         ox == OriginX(ContainerWidth, n)
         idx == CandleIdx(R(calc[1].mx), ox, fw)
         shown == InPlot(calc[1].mx, calc[1].my, ContainerWidth,
                         mainChartBottom(chartHeight(0), 0))
     IN calc' = Some([calc[1] EXCEPT !.out =
                  Some([fw |-> fw, ox |-> ox, candleIdx |-> idx, shown |-> shown,
                        read |-> shown /\ idx >= 0 /\ idx < n,
                        atCandle |-> [i \in 0 .. n - 1 |->
                                        CandleIdx(xForCandle(i, ox, fw), ox, fw)]])])
  /\ UNCHANGED <<appState, selection, viewport, clock, ticks, events, replay>>

NextCrosshair == RenderCrosshair

SpecCrosshair == InitCrosshair /\ [][NextCrosshair]_vars

\* a slice of BOLL_PERIOD candles closing at a for the first k candles and
\* at b from then on, each opening at the close before it
StepSlice(a, b, k) ==
  [i \in 1 .. BOLL_PERIOD |->
     LET close == IF i <= k THEN a ELSE b
         open == IF i <= k + 1 THEN a ELSE b
     IN [time |-> i * 60000, open |-> open, high |-> Max(open, close),
         low |-> Min(open, close), close |-> close]]

\* the empty slice, slices of one candle with open = high = low = close,
\* and slices of BOLL_PERIOD candles
AxisSlices ==
  {<< >>}
    \cup {<<[time |-> 60000, open |-> p, high |-> p, low |-> p, close |-> p]>> :
            p \in AxisFlat}
    \cup {StepSlice(a, b, k) : a \in AxisLevels, b \in AxisLevels, k \in AxisSplits}
    \cup {StepSlice(AxisJump.from, AxisJump.to, AxisJump.at)}

\* the price of the asset shown with a slice: its last close, the first
\* level when there is no candle
AxisPrice(slice) ==
  IF slice = << >> THEN CHOOSE p \in AxisLevels : \A q \in AxisLevels : p <= q
  ELSE slice[Len(slice)].close

\* the price range of single frames: a displayed slice, the view at the
\* latest candle or not, a current price, an entry price or none, Bollinger
\* bands on or off
InitAxis ==
  /\ AppStart
  /\ \A t \in StartTimes : clock <= t
  /\ replay = Null
  /\ \E slice \in AxisSlices, atLatest \in BOOLEAN, above \in AxisCurrentAbove,
        below \in {0} \cup AxisEntryBelow, indicators \in {{}, {"BOLL"}} :
        calc = Some([slice |-> slice, atLatest |-> atLatest,
                     currentPrice |-> AxisPrice(slice) + above,
                     entryPrice |-> IF below = 0 THEN Null
                                    ELSE Some(AxisPrice(slice) - below),
                     indicators |-> indicators, out |-> Null])

\* the canvas effect: nothing when displayCandles is empty, else allPrices,
\* hi, lo, range and priceToY applied to every price of the frame
RenderAxis ==
  /\ calc # Null
  /\ calc[1].out = Null
  /\ LET c == calc[1]
         allPrices == AllPrices(c.slice, c.atLatest, c.currentPrice, c.entryPrice,
                                c.indicators)
         height == mainChartH(chartHeight(0), 0)
         hi == AxisHi(allPrices)
         lo == AxisLo(allPrices)
         range == FrameRange(hi, lo)
     IN calc' = Some([c EXCEPT !.out =
                  IF Len(c.slice) = 0 THEN Some([drawn |-> FALSE])
                  ELSE Some([drawn |-> TRUE,
                             allPrices |-> allPrices, hi |-> hi, lo |-> lo,
                             range |-> range, height |-> height,
                             y |-> [p \in allPrices |->
                                      priceToY(p, hi, lo, range, height)]])])
  /\ UNCHANGED <<appState, selection, viewport, clock, ticks, events, replay>>

NextAxis == RenderAxis

SpecAxis == InitAxis /\ [][NextAxis]_vars

\* the indicator lines of one frame: calcSMA(closes, 20), calcEMA(closes, 12),
\* calcBollinger(closes, 20, 2) and calcRSI(closes, 14) over the closes of
\* the displayed candles
IndicatorLines(slice) ==
  LET closes == [i \in 1 .. Len(slice) |-> slice[i].close]
      boll == calcBollinger(closes, BOLL_PERIOD, 2)
  IN [sma |-> calcSMA(closes, 20), ema |-> calcEMA(closes, 12),
      bollMid |-> boll.mid, bollUpper |-> boll.upper, bollLower |-> boll.lower,
      rsi |-> calcRSI(closes, 14)]

\* one candle more than the closest zoom shows
ViewLen == ZOOM_LEVELS[1] + 1

\* a candle series from its closes, one candle a minute
ViewCandles(closes) ==
  [i \in 1 .. Len(closes) |->
     LET open == IF i = 1 THEN closes[1] ELSE closes[i - 1]
     IN [time |-> i * 60000, open |-> open, high |-> Max(open, closes[i]),
         low |-> Min(open, closes[i]), close |-> closes[i]]]

\* flat series, and series that fall from 14 to 1, touch 0 once within the
\* first twelve candles and settle at 2
ViewFlat == {1, 2, 3, 4}
ViewDips == 2 .. 12
ViewSeries ==
  {ViewCandles([i \in 1 .. ViewLen |-> p]) : p \in ViewFlat}
    \cup {ViewCandles([i \in 1 .. ViewLen |->
                         IF i = 1 THEN 14 ELSE IF i = z THEN 0
                         ELSE IF i <= 12 THEN 1 ELSE 2]) : z \in ViewDips}

\* the chart given a series and a viewport
InitView ==
  /\ AppStart
  /\ \A t \in StartTimes : clock <= t
  /\ replay = Null
  /\ \E series \in ViewSeries, zi \in {0, 1},
        offset \in 0 .. MaxOffset(ViewLen, VisibleCount(0)) :
        calc = Some([candles |-> series, zoomIndex |-> zi,
                     scrollOffset |-> offset, out |-> Null])

\* the canvas effect: the lines over the displayed slice
RenderLines ==
  /\ calc # Null
  /\ calc[1].out = Null
  /\ LET c == calc[1]
         count == VisibleCount(c.zoomIndex)
         offset == ClampedOffset(c.scrollOffset, MaxOffset(Len(c.candles), count))
         slice == DisplayCandles(c.candles, count, offset)
     IN calc' = Some([c EXCEPT !.out =
                  Some([slice |-> slice, lines |-> IndicatorLines(slice)])])
  /\ UNCHANGED <<appState, selection, viewport, clock, ticks, events, replay>>

NextView == RenderLines

SpecView == InitView /\ [][NextView]_vars

\* tickCandles called on its own: a series built from the empty series by
\* ticks of recorded prices and non-decreasing timestamps, the wall clock
\* moving on between the calls
InitReplay ==
  /\ AppStart
  /\ \A t \in StartTimes : clock <= t
  /\ calc = Null
  /\ \E tf \in TfSet :
        replay = Some([periodSec |-> tf, series |-> << >>, given |-> << >>,
                       feed |-> << >>])

\* timestamp of the latest tick fed (0 before the first)
FeedNow == IF replay[1].feed = << >> THEN 0 ELSE replay[1].feed[Len(replay[1].feed)].now

\* one call tickCandles(series, periodSec, price, now)
Feed(price, now) ==
  /\ LET r == replay[1]
     IN replay' = Some([r EXCEPT
          !.series = tickCandles(r.series, r.periodSec, price, now),
          !.given = tickCandlesGiven(r.series, r.periodSec, price, now),
          !.feed = Append(r.feed, [price |-> price, now |-> now])])
  /\ clock' = clock + TICK_INTERVAL
  /\ UNCHANGED <<appState, selection, viewport, ticks, events, calc>>

\* a short feed: any price, in the same instant, a tick later or a period later
FeedTick ==
  /\ replay # Null
  /\ Len(replay[1].feed) < MaxFeed
  /\ \E price \in FeedPrices, dt \in {0, TICK_INTERVAL, replay[1].periodSec * 1000} :
        Feed(price, FeedNow + dt)

\* the feed so far is the price 100 once a period
Steady(feed, periodSec) ==
  feed = [j \in 1 .. Len(feed) |-> [price |-> 100, now |-> j * periodSec * 1000]]

\* tickCandles called in a loop over ticks i .. k of a feed, each call taking
\* the finished series of the call before
RECURSIVE ReplayFrom(_, _, _, _, _)
ReplayFrom(series, periodSec, feed, i, k) ==
  IF Len(series) >= 0 /\ i > k THEN series
  ELSE ReplayFrom(tickCandles(series, periodSec, feed[i].price, feed[i].now),
                  periodSec, feed, i + 1, k)

\* the series after the first k ticks of a feed
ReplayTicks(start, periodSec, feed, k) == ReplayFrom(start, periodSec, feed, 1, k)

\* a long feed: the price 100 once a period, fed FillBatch calls at a time
\* until MaxFill ticks are in
FeedSteady ==
  /\ replay # Null
  /\ Len(replay[1].feed) < MaxFill
  /\ Steady(replay[1].feed, replay[1].periodSec)
  /\ LET r == replay[1]
         n == Min(FillBatch, MaxFill - Len(r.feed))
         batch == [j \in 1 .. n |->
                     [price |-> 100,
                      now |-> (Len(r.feed) + j) * r.periodSec * 1000]]
         before == ReplayTicks(r.series, r.periodSec, batch, n - 1)
     IN /\ replay' = Some([r EXCEPT
              !.series = tickCandles(before, r.periodSec, batch[n].price, batch[n].now),
              !.given = tickCandlesGiven(before, r.periodSec, batch[n].price, batch[n].now),
              !.feed = r.feed \o batch])
        /\ clock' = clock + n * TICK_INTERVAL
  /\ UNCHANGED <<appState, selection, viewport, ticks, events, calc>>

NextReplay == FeedTick

SpecReplay == InitReplay /\ [][NextReplay]_vars

NextFill ==
  \/ FeedTick
  \/ FeedSteady

SpecFill == InitReplay /\ [][NextFill]_vars

(* ------------------------------ properties ----------------------------- *)
SeriesOf(id, tf) == liveAssets[id].candlesByTf[tf]
LastOf(seq) == seq[Len(seq)]

\* C1: every candle of every series has low <= min(open, close) and
\* max(open, close) <= high
C1_CandleShape ==
  \A id \in AssetIds, tf \in TfSet :
    \A i \in 1 .. Len(SeriesOf(id, tf)) :
      LET c == SeriesOf(id, tf)[i]
      IN /\ c.low <= c.open /\ c.low <= c.close
         /\ c.open <= c.high /\ c.close <= c.high

\* C2: the times of every series are multiples of the period, each one
\* period after the one before it
C2_SeriesContiguous ==
  \A id \in AssetIds, tf \in TfSet :
    LET s == SeriesOf(id, tf)
        pMs == tf * 1000
    IN \A i \in 1 .. Len(s) :
         /\ s[i].time % pMs = 0
         /\ i > 1 => s[i].time = s[i - 1].time + pMs

\* a step takes the series old to new: one that adds no candle changes at
\* most the newest candle; one that adds a candle drops from the front just
\* the candles in excess of the cap and leaves the others as they were
EvictsOnlyOldest(old, new, pushed) ==
  IF ~pushed
  THEN /\ Len(new) = Len(old)
       /\ SubSeq(new, 1, Len(new) - 1) = SubSeq(old, 1, Len(old) - 1)
  ELSE LET dropped == Len(old) + 1 - Len(new)
       IN /\ dropped = (IF Len(old) + 1 > 500 THEN Len(old) + 1 - 500 ELSE 0)
          /\ SubSeq(new, 1, Len(new) - 1) = SubSeq(old, dropped + 1, Len(old))

\* C3: no series is ever longer than 500, and a tick that would exceed 500
\* drops only the oldest candles and leaves the retained ones as they were
C3_CapAndEviction ==
  /\ [](\A id \in AssetIds, tf \in TfSet : Len(SeriesOf(id, tf)) <= 500)
  /\ [][\/ ticks' = ticks /\ liveAssets' = liveAssets
        \/ \A id \in AssetIds, tf \in TfSet :
             EvictsOnlyOldest(SeriesOf(id, tf), liveAssets'[id].candlesByTf[tf],
                              /\ ticks' # ticks
                              /\ LastOf(SeriesOf(id, tf)).time
                                   # clock' - (clock' % (tf * 1000)))]_vars

\* a tick has pushed a candle onto a full series and the oldest was dropped
C3_Evicted ==
  /\ ticks > 0
  /\ \E id \in AssetIds, tf \in TfSet :
        LET s == SeriesOf(id, tf)
        IN /\ Len(s) = 500
           /\ LastOf(s).time = clock - (clock % (tf * 1000))
           /\ LastOf(s).open = s[Len(s) - 1].close

\* C4: 0 <= clampedOffset <= max(0, totalCandles - visibleCount) and the
\* visible slice has min(visibleCount, totalCandles) candles
C4_ViewportInvariant ==
  LET count == ZOOM_LEVELS[zoomIndex + 1]
      total == Len(candles)
      most == IF total - count > 0 THEN total - count ELSE 0
  IN /\ 0 <= clampedOffset
     /\ clampedOffset <= most
     /\ Len(displayCandles) = (IF count < total THEN count ELSE total)

\* the stored offset exceeds what the zoom level allows, and is clamped
C4_StaleOffsetClamped ==
  /\ scrollOffset > maxOffset
  /\ clampedOffset = maxOffset
  /\ Len(displayCandles) = visibleCount

Clamp(x, lo, hi) == IF x < lo THEN lo ELSE IF x > hi THEN hi ELSE x

\* C5: every scrolling handler (keyboard, wheel, toolbar) sets scrollOffset
\* to clamp(scrollOffset + delta, 0, maxOffset); with 500 candles and 100
\* visible, scrollBy(+1000000) leaves the effective offset at 400
C5_ScrollByClamps ==
  /\ [](Len(candles) = 500 /\ visibleCount = 100
          => ClampedOffset(ScrollTo(scrollOffset, 1000000, maxOffset), maxOffset) = 400)
  /\ [][LET most == IF Len(candles) - visibleCount > 0
                     THEN Len(candles) - visibleCount ELSE 0
             To(delta) == scrollOffset' = Clamp(scrollOffset + delta, 0, most)
         IN /\ KeyArrowLeft => To(KeyStep(visibleCount))
            /\ KeyArrowRight => To(0 - KeyStep(visibleCount))
            /\ \A sign \in {-1, 0, 1} : Wheel(sign) => To(sign * WheelStep(visibleCount))
            /\ ToolbarScrollLeft => To(ToolbarStep(visibleCount))
            /\ ToolbarScrollRight => To(0 - ToolbarStep(visibleCount))]_vars

\* the view was scrolled back by one key step and one wheel step
C5_Scrolled ==
  /\ zoomIndex = INITIAL_ZOOM_INDEX
  /\ scrollOffset = KeyStep(visibleCount) + WheelStep(visibleCount)

\* C6: zoomIn and zoomOut move zoomIndex by one step, clamped to
\* 0 .. ZOOM_LEVELS.length - 1, and leave the stored scrollOffset alone
C6_ZoomStep ==
  /\ [](0 <= zoomIndex /\ zoomIndex <= Len(ZOOM_LEVELS) - 1)
  /\ [][/\ handleZoomIn =>
             /\ zoomIndex' = (IF zoomIndex = 0 THEN 0 ELSE zoomIndex - 1)
             /\ scrollOffset' = scrollOffset
        /\ handleZoomOut =>
             /\ zoomIndex' = (IF zoomIndex = Len(ZOOM_LEVELS) - 1
                               THEN zoomIndex ELSE zoomIndex + 1)
             /\ scrollOffset' = scrollOffset]_vars

\* zoomed in to the first level with the stored scrollOffset of the oldest
\* position of the start-up level still in place
C6_ZoomedToEnd ==
  /\ zoomIndex = 0
  /\ scrollOffset = Len(candles) - ZOOM_LEVELS[INITIAL_ZOOM_INDEX + 1]

\* C7: every price is positive in every state, and a step moves a price by
\* at most 0.08 % (and the rounding of one price unit)
C7_PricePositive ==
  /\ [](\A id \in AssetIds : liveAssets[id].price > 0)
  /\ [][\A id \in AssetIds :
          LET prev == liveAssets[id].price
              next == liveAssets'[id].price
              most == MulDiv(prev, 8, 10000) + 1
          IN next - prev <= most /\ prev - next <= most]_vars

\* a tick has moved a price away from the base price
C7_PriceMoved ==
  /\ ticks > 0
  /\ \E id \in AssetIds : liveAssets[id].price # ASSET_MAP[id].basePrice

\* C8: after a TICK at time now the last candle of every series of every
\* asset closes at the asset's price and has time floor(now / pMs) * pMs
C8_LastCandleTracksTick ==
  ticks > 0 =>
    \A id \in AssetIds, tf \in TfSet :
      LET s == SeriesOf(id, tf)
      IN /\ Len(s) > 0
         /\ LastOf(s).close = liveAssets[id].price
         /\ LastOf(s).time = clock - (clock % (tf * 1000))

\* a second tick has updated the candle that the first tick pushed
C8_UpdatedInPlace ==
  /\ ticks = 2
  /\ \E id \in AssetIds, tf \in TfSet :
        LET s == SeriesOf(id, tf)
        IN /\ LastOf(s).close = liveAssets[id].price
           /\ LastOf(s).high # LastOf(s).low

\* C9: a step either leaves all market data as it is or is one TICK that
\* brings the price and every series of every asset to that tick
C9_TickAtomic ==
  [][\/ liveAssets' = liveAssets
     \/ /\ ticks' = ticks + 1
        /\ \A id \in AssetIds, tf \in TfSet :
             LET s == liveAssets'[id].candlesByTf[tf]
             IN /\ LastOf(s).time = clock' - (clock' % (tf * 1000))
                /\ LastOf(s).close = liveAssets'[id].price]_vars

\* a tick has updated the first asset while another asset was displayed
C9_TickedInBackground ==
  /\ ticks > 0
  /\ activeAssetId # ASSETS[1].id
  /\ LastOf(SeriesOf(ASSETS[1].id, 60)).time = clock - (clock % (60 * 1000))

\* C10: a step that is not a TICK leaves every price and every series as
\* it is
C10_OnlyTickChangesMarket ==
  [][ticks' = ticks => liveAssets' = liveAssets]_vars

\* after a tick another timeframe is displayed, its series as ticked
C10_SwitchedAfterTick ==
  /\ ticks > 0
  /\ timeframe # "1m"
  /\ LastOf(candles).close = currentPrice

\* C11: a step that changes the timeframe, or presses a timeframe button,
\* leaves scrollOffset = 0, the effective offset 0 and the view at latest
C11_TimeframeResetsScroll ==
  [][(timeframe' # timeframe \/ \E i \in 1 .. Len(TF_OPTIONS) : SetTimeframe(TF_OPTIONS[i]))
       => /\ scrollOffset' = 0
          /\ clampedOffset' = 0
          /\ isAtLatest']_vars

\* another timeframe is displayed after the view was zoomed, and the view
\* is at latest
C11_SwitchedAtLatest ==
  /\ timeframe = "1H"
  /\ zoomIndex # INITIAL_ZOOM_INDEX
  /\ scrollOffset = 0
  /\ isAtLatest

\* the arguments and the results of the indicator call, once it was made
Calculated == calc # Null /\ calc[1].out # Null
calcData == calc[1].data
calcPeriod == calc[1].period
calcOut == calc[1].out[1]

\* the entry is a number within 0.001 of x
Near(entry, x) ==
  /\ entry # Null
  /\ IsFinite(entry[1])
  /\ Abs(entry[1][1] - x * entry[1][2]) * 1000 <= entry[1][2]

StrictlyIncreasing(data) == \A i \in 2 .. Len(data) : data[i] > data[i - 1]
StrictlyDecreasing(data) == \A i \in 2 .. Len(data) : data[i] < data[i - 1]

\* C12: over a strictly increasing series every defined RSI value is 100,
\* over a strictly decreasing series every defined RSI value is 0
C12_RsiMonotone ==
  Calculated /\ calcPeriod >= 1 =>
    \A i \in 1 .. Len(calcOut.rsi) :
      calcOut.rsi[i] # Null =>
        /\ StrictlyIncreasing(calcData) => Near(calcOut.rsi[i], 100)
        /\ StrictlyDecreasing(calcData) => Near(calcOut.rsi[i], 0)

\* the six series an indicator call returns
OutSeries(out) == {out.sma, out.ema, out.boll.mid, out.boll.upper, out.boll.lower, out.rsi}

\* C13: for a period <= 0 every indicator returns a series of the input's
\* length whose entries are all null
C13_NonPositivePeriodAllNull ==
  Calculated /\ calcPeriod <= 0 =>
    \A r \in OutSeries(calcOut) :
      /\ Len(r) = Len(calcData)
      /\ \A i \in 1 .. Len(r) : r[i] = Null

\* the series r has the length of data, null at the indices (from 0) below
\* lookback and a finite number at every other index
DefinedFrom(r, data, lookback) ==
  /\ Len(r) = Len(data)
  /\ \A i \in 1 .. Len(r) :
       IF i - 1 < lookback THEN r[i] = Null
       ELSE r[i] # Null /\ IsFinite(r[i][1])

\* C14: for a period >= 1 every indicator output has the input's length, is
\* null exactly below its lookback (period - 1 for SMA, EMA and the three
\* Bollinger series, period for RSI) and a number elsewhere
C14_NullExactlyBelowLookback ==
  Calculated /\ calcPeriod >= 1 =>
    /\ DefinedFrom(calcOut.sma, calcData, calcPeriod - 1)
    /\ DefinedFrom(calcOut.ema, calcData, calcPeriod - 1)
    /\ DefinedFrom(calcOut.boll.mid, calcData, calcPeriod - 1)
    /\ DefinedFrom(calcOut.boll.upper, calcData, calcPeriod - 1)
    /\ DefinedFrom(calcOut.boll.lower, calcData, calcPeriod - 1)
    /\ DefinedFrom(calcOut.rsi, calcData, calcPeriod)

\* a call on a series longer than the lookback: SMA starts at index
\* period - 1 and RSI one index later
C14_LongEnough ==
  /\ Calculated
  /\ calcPeriod >= 2
  /\ Len(calcData) > calcPeriod
  /\ calcOut.sma[calcPeriod - 1] = Null /\ calcOut.sma[calcPeriod] # Null
  /\ calcOut.rsi[calcPeriod] = Null /\ calcOut.rsi[calcPeriod + 1] # Null

Constant(data, v) == \A i \in 1 .. Len(data) : data[i] = v

\* C15: over a constant series of value v every defined entry of SMA, of
\* EMA and of the three Bollinger series is v
C15_ConstantSeries ==
  Calculated /\ calcPeriod >= 1 =>
    \A v \in CloseValues :
      Constant(calcData, v) =>
        \A r \in {calcOut.sma, calcOut.ema, calcOut.boll.mid,
                   calcOut.boll.upper, calcOut.boll.lower} :
          \A i \in 1 .. Len(r) : r[i] # Null => r[i] = Some(R(v))

\* a call on a constant series longer than the period: EMA is past its
\* seed index and the bands have collapsed onto the mid line
C15_ConstantPastSeed ==
  /\ Calculated
  /\ calcPeriod >= 2
  /\ Len(calcData) > calcPeriod
  /\ Constant(calcData, 2)
  /\ calcOut.ema[Len(calcData)] = Some(R(2))
  /\ calcOut.boll.upper[Len(calcData)] = calcOut.boll.lower[Len(calcData)]

\* the frame that was rendered
Rendered == calc # Null /\ calc[1].out # Null
frameOut == calc[1].out[1]

Replayed == replay # Null /\ replay[1].feed # << >>

Buckets(feed, periodSec) ==
  {Bucket(feed[j].now, periodSec * 1000) : j \in 1 .. Len(feed)}

\* the candle times of a series
Times(series) == {series[k].time : k \in 1 .. Len(series)}

\* every candle of the series opens at the close of the candle before it
OpensAtPreviousClose(series) ==
  \A k \in 2 .. Len(series) : series[k].open = series[k - 1].close

\* every candle of the series has open = high = low = close = v
Flat(series, v) ==
  \A k \in 1 .. Len(series) :
     /\ series[k].open = v /\ series[k].high = v
     /\ series[k].low = v /\ series[k].close = v

\* C18 as stated: from the empty series and non-decreasing timestamps the
\* series has exactly one candle per distinct bucket touched by a tick, the
\* newest closing at the last price fed, each opening at the previous
\* candle's close (the first at the first price fed), and a constant price
\* of 100 gives open = high = low = close = 100 throughout.
C18_OneCandlePerBucket ==
  Replayed =>
    LET r == replay[1]
        B == Buckets(r.feed, r.periodSec)
    IN /\ Times(r.series) = B
       /\ Len(r.series) = Cardinality(B)
       /\ LastOf(r.series).close = LastOf(r.feed).price
       /\ OpensAtPreviousClose(r.series)
       /\ r.series[1].open = r.feed[1].price
       /\ Steady(r.feed, r.periodSec) => Flat(r.series, 100)

\* C18: from the empty series and non-decreasing timestamps the series has
\* exactly one candle per distinct bucket touched by a tick, of the newest
\* MAX_CANDLES buckets when more have been touched; the newest candle is
\* that of the last tick's bucket and closes at the last price fed; each
\* candle opens at the close of the candle before it, the first at the
\* first price fed while no candle has been dropped; a constant price of
\* 100 gives open = high = low = close = 100 throughout. A tick in the
\* bucket of the newest candle adds no candle and leaves its open and all
\* earlier candles as they were; a tick in a new bucket leaves every
\* candle it keeps as it was.
C18_OneCandlePerKeptBucket ==
  /\ [](Replayed =>
          LET r == replay[1]
              B == Buckets(r.feed, r.periodSec)
              T == Times(r.series)
          IN /\ T \subseteq B
             /\ Len(r.series) = Cardinality(T)
             /\ Len(r.series) = Min(Cardinality(B), MAX_CANDLES)
             /\ \A b \in B \ T : b < r.series[1].time
             /\ LastOf(r.series).time =
                  Bucket(LastOf(r.feed).now, r.periodSec * 1000)
             /\ LastOf(r.series).close = LastOf(r.feed).price
             /\ OpensAtPreviousClose(r.series)
             /\ Cardinality(B) <= MAX_CANDLES =>
                  r.series[1].open = r.feed[1].price
             /\ Steady(r.feed, r.periodSec) => Flat(r.series, 100))
  /\ [][Replayed /\ Len(replay'[1].feed) = Len(replay[1].feed) + 1 =>
          LET old == replay[1].series
              new == replay'[1].series
              tick == LastOf(replay'[1].feed)
          IN IF Bucket(tick.now, replay[1].periodSec * 1000) = LastOf(old).time
             THEN /\ Len(new) = Len(old)
                  /\ LastOf(new).open = LastOf(old).open
                  /\ SubSeq(new, 1, Len(new) - 1) = SubSeq(old, 1, Len(old) - 1)
             ELSE SubSeq(new, 1, Len(new) - 1) =
                    IF Len(old) < MAX_CANDLES THEN old
                    ELSE SubSeq(old, 2, Len(old))]_vars

\* C18 witness: three ticks of changing price fell into two buckets, two
\* of them into the newest, whose candle kept its open and took the last
\* price as its close
C18_TwoTicksOneCandle ==
  /\ Replayed
  /\ Len(replay[1].feed) = 3
  /\ Len(replay[1].series) = 2
  /\ Bucket(replay[1].feed[2].now, replay[1].periodSec * 1000)
       = LastOf(replay[1].series).time
  /\ LastOf(replay[1].series).open # LastOf(replay[1].series).close
  /\ replay[1].feed[2].price # replay[1].feed[3].price

\* C19: goToLatest sets scrollOffset to 0, and then isAtLatest holds and the
\* visible slice ends at the newest candle; goToOldest sets scrollOffset to
\* maxOffset, and then the visible slice starts at the first candle of the
\* series.
C19_GoToEnds ==
  [][/\ goToLatest =>
          /\ scrollOffset' = 0
          /\ isAtLatest'
          /\ displayCandles' # << >>
          /\ LastOf(displayCandles') = LastOf(candles')
          /\ displayCandles' =
               SubSeq(candles', Len(candles') - Len(displayCandles') + 1, Len(candles'))
     /\ goToOldest =>
          /\ scrollOffset' = Max(0, Len(candles) - visibleCount)
          /\ scrollOffset' = maxOffset'
          /\ displayCandles' # << >>
          /\ displayCandles'[1] = candles'[1]
          /\ displayCandles' = SubSeq(candles', 1, Len(displayCandles'))]_vars

\* C19 witness: the view went to the oldest candles: the offset is the
\* largest one, away from the latest, and the slice starts the series
C19_AtOldest ==
  /\ events > 0
  /\ maxOffset > 0
  /\ scrollOffset = maxOffset
  /\ ~isAtLatest
  /\ displayCandles[1] = candles[1]

\* C20: while a drag is on, a mouse move with total pixel delta dx since the
\* mouse-down and candlesDragged = round(dx / candleWidth) sets scrollOffset
\* to clamp(startOffset - candlesDragged, 0, maxOffset), startOffset being
\* the offset recorded at the mouse-down.
C20_DragScrollsBack ==
  [][\A x \in PointerXs :
       handleMouseMove(x) /\ isDragging /\ dragStartRef # Null =>
         LET start == dragStartRef[1]
             dx == x - start.x
             candlesDragged == CandlesDragged(dx, ContainerWidth - 84, visibleCount)
         IN scrollOffset' = Clamp(start.offset - candlesDragged, 0, maxOffset)]_vars

\* C21: within a drag a mouse move to x sets scrollOffset to a value fixed
\* by the offset and x recorded at mouse-down, the pointer's x and the zoom:
\* whatever the moves in between left as scrollOffset and
\* mousePos, the result is the same, and a move back to the start x gives
\* the start offset again.
C21_DragDriftFree ==
  [][\A x \in DragXs :
       handleMouseMove(x) /\ isDragging /\ dragStartRef # Null =>
         LET start == dragStartRef[1]
             chartW == ContainerWidth - 84
             count == ZOOM_LEVELS[zoomIndex + 1]
             moved == (2 * (x - start.x) * count + chartW) \div (2 * chartW)
         IN /\ scrollOffset' = Clamp(start.offset + moved, 0, Len(candles) - count)
            /\ x = start.x => scrollOffset' = start.offset]_vars

\* C21 witness: a drag that started at offset 0 had moved the view (the
\* stored offset is not 0) and the pointer, back at the start x, has put
\* the start offset back
C21_DraggedAndBack ==
  /\ isDragging
  /\ dragStartRef # Null
  /\ mousePos # Null
  /\ mousePos[1].x = dragStartRef[1].x
  /\ scrollOffset = dragStartRef[1].offset
  /\ dragStartRef[1].offset > 0

\* C22: the crosshair's candle index at the x of candle i is i, for every
\* candle of the visible slice, and for every cursor x inside the plot area
\* the index lies in 0 .. visibleSlice.length - 1.
C22_CrosshairIndexInSlice ==
  Rendered =>
    /\ \A i \in 0 .. calc[1].numDisplayed - 1 : frameOut.atCandle[i] = i
    /\ frameOut.shown =>
         /\ 0 <= frameOut.candleIdx
         /\ frameOut.candleIdx <= calc[1].numDisplayed - 1

\* a <= b for finite fractions
RLeq(a, b) == ~RLess(b, a)

\* the canvas effect ran and drew a frame
Drawn == Rendered /\ frameOut.drawn

\* the prices the claim lists for a frame: highs and lows of the visible
\* candles, the current price if and only if the view is at the latest
\* candle, the entry price if and only if there is one, and the defined
\* Bollinger upper and lower values if and only if BOLL is enabled
ListedPrices(c) ==
  LET bands == calcBollinger([i \in 1 .. Len(c.slice) |-> c.slice[i].close], 20, 2)
  IN {R(c.slice[i].high) : i \in 1 .. Len(c.slice)}
       \cup {R(c.slice[i].low) : i \in 1 .. Len(c.slice)}
       \cup {R(c.currentPrice) : x \in {1 : y \in {c.atLatest} \ {FALSE}}}
       \cup {R(c.entryPrice[k]) : k \in 1 .. Len(c.entryPrice)}
       \cup {v \in Defined(bands.upper) \cup Defined(bands.lower) :
               "BOLL" \in c.indicators}

\* lo and hi are 0.999 and 1.001 times the least and the largest price listed
PaddedExtremes(c, out) ==
  /\ out.allPrices = ListedPrices(c)
  /\ \E m \in ListedPrices(c) :
        /\ \A v \in ListedPrices(c) : RLeq(m, v)
        /\ out.lo = RMul(m, Norm(999, 1000))
  /\ \E m \in ListedPrices(c) :
        /\ \A v \in ListedPrices(c) : RLeq(v, m)
        /\ out.hi = RMul(m, Norm(1001, 1000))

\* every price of the frame lies in lo .. hi and maps into the plot area
AllInside(out) ==
  \A v \in out.allPrices :
     /\ RLeq(out.lo, v) /\ RLeq(v, out.hi)
     /\ RLeq(R(TOP_PAD), out.y[v])
     /\ RLeq(out.y[v], R(TOP_PAD + out.height))

\* C23 as stated: in every rendered frame lo = 0.999 * min(S) and
\* hi = 1.001 * max(S) for the listed prices S, and every value of S lies
\* within lo .. hi and maps inside the plot area.
C23_PricesInsideAxis ==
  Drawn => PaddedExtremes(calc[1], frameOut) /\ AllInside(frameOut)

\* C23: in every rendered frame lo = 0.999 * min(S) and hi = 1.001 * max(S)
\* for the listed prices S; when no value of S is negative (prices are not;
\* a lower Bollinger band is when the closes deviate by more than half
\* their mean) every value of S lies within lo .. hi and maps inside the
\* plot area.
C23_PositivePricesInsideAxis ==
  Drawn =>
    /\ PaddedExtremes(calc[1], frameOut)
    /\ (\A v \in frameOut.allPrices : RLeq(R(0), v)) => AllInside(frameOut)

\* C23 witness: a frame at the latest candle with an entry price and
\* Bollinger bands, whose lower band is the least price and whose current
\* price is the largest
C23_BandsAndMarkers ==
  /\ Drawn
  /\ calc[1].atLatest /\ calc[1].entryPrice # Null /\ "BOLL" \in calc[1].indicators
  /\ frameOut.hi = RMul(R(calc[1].currentPrice), Norm(1001, 1000))
  /\ \E v \in frameOut.allPrices :
        /\ RLess(v, R(calc[1].entryPrice[1]))
        /\ RLess(R(0), v)
        /\ frameOut.lo = RMul(v, Norm(999, 1000))

\* C24: with no candle to display the render step produces nothing, no range
\* and no transform; for every non-empty slice, a single candle with
\* high = low among them, the range dividing in the price transforms is
\* not 0 (it is hi - lo, or 1 when hi - lo is 0) and every price of the
\* frame maps to a finite y.
C24_NoDivisionByZero ==
  Rendered =>
    /\ frameOut.drawn <=> calc[1].slice # << >>
    /\ ~frameOut.drawn => DOMAIN frameOut = {"drawn"}
    /\ frameOut.drawn =>
         /\ frameOut.range # R(0)
         /\ IsFinite(frameOut.range)
         /\ frameOut.range =
              (IF frameOut.hi = frameOut.lo THEN R(1)
               ELSE RSub(frameOut.hi, frameOut.lo))
         /\ \A v \in frameOut.allPrices : IsFinite(frameOut.y[v])

\* C24 witness: a frame of a single candle with high = low whose hi and lo
\* coincide was drawn with the fallback range 1
C24_FlatSingleCandle ==
  /\ Drawn
  /\ Len(calc[1].slice) = 1
  /\ calc[1].slice[1].high = calc[1].slice[1].low
  /\ frameOut.hi = frameOut.lo
  /\ frameOut.range = R(1)

\* C25: whenever there are candles, the indices highlighted in the minimap
\* are those of the visible slice within the whole series (the slice is the
\* series from the first highlighted index up to the last), and the
\* highlighted rectangle is visibleSlice.length / totalCandles of the
\* minimap wide, starting at first index / totalCandles.
C25_MinimapMatchesSlice ==
  totalCandles > 0 =>
    /\ minimapView.to - minimapView.from = Len(displayCandles)
    /\ displayCandles = SubSeq(candles, minimapView.from + 1, minimapView.to)
    /\ VpW(minimapView, totalCandles) = Norm(Len(displayCandles), Len(candles))
    /\ displayCandles # << >> =>
         candles[((Len(candles) * VpX(minimapView, totalCandles)[1])
                    \div VpX(minimapView, totalCandles)[2]) + 1] = displayCandles[1]

\* C25 witness: after zooming out with the view at the oldest candles the
\* stored offset is past the largest one and the minimap highlights the
\* series from its first candle
C25_HighlightAtOldest ==
  /\ scrollOffset > maxOffset
  /\ minimapView.from = 0
  /\ minimapView.to = visibleCount
  /\ minimapView.to < totalCandles

\* C26: in every reachable viewport state with effective offset above 0,
\* a scroll toward the latest candle (scrollBy(d) with d < 0, here the
\* right arrow key) leaves a strictly smaller effective offset.
C26_ScrollForwardMoves ==
  [][KeyArrowRight /\ clampedOffset > 0 => clampedOffset' < clampedOffset]_vars

LineNames == {"sma", "ema", "bollMid", "bollUpper", "bollLower", "rsi"}

\* the index in the full series of the candle with the given time
IndexOfTime(series, time) == CHOOSE k \in 1 .. Len(series) : series[k].time = time

\* C27: the value a frame draws for a candle on the SMA(20), EMA(12),
\* Bollinger(20, 2) and RSI(14) lines, where it is defined, is the value of
\* that candle computed over the full series, so it is the same in every
\* viewport that shows the candle
C27_IndicatorViewportFree ==
  Rendered =>
    LET full == IndicatorLines(calc[1].candles)
    IN \A i \in 1 .. Len(frameOut.slice), name \in LineNames :
         frameOut.lines[name][i] # Null =>
           frameOut.lines[name][i] =
             full[name][IndexOfTime(calc[1].candles, frameOut.slice[i].time)]

\* C28: before the first TICK every asset has SEED_COUNT candles in every
\* timeframe, and the close of the latest of them is the asset's current
\* price, its base price
C28_SeedJoinsLiveFeed ==
  ticks = 0 =>
    \A id \in AssetIds, tf \in TfSet :
      LET series == liveAssets[id].candlesByTf[tf]
      IN /\ Len(series) = SEED_COUNT
         /\ \E i \in AssetIdx : ASSETS[i].id = id /\ liveAssets[id].price = ASSETS[i].basePrice
         /\ series[Len(series)].close = liveAssets[id].price

\* the sum of seq[i].amount or of seq[i].payout for i = a .. b
RECURSIVE SumOf(_, _, _, _)
SumOf(seq, field, a, b) ==
  IF a > b THEN 0
  ELSE IF a = b THEN (IF field = "amount" THEN seq[a].amount ELSE seq[a].payout)
  ELSE LET mid == (a + b) \div 2
       IN SumOf(seq, field, a, mid) + SumOf(seq, field, mid + 1, b)

OpenStakes == SumOf(openTrades, "amount", 1, Len(openTrades))
SettledPnl == SumOf(settled, "payout", 1, Len(settled))

\* C29: the balance plus the stakes of the open trades is the initial 1000
\* plus the deposits, less the withdrawals, plus the referral earnings, plus
\* the P/L of every trade settled so far; and the balance is never negative
C29_MoneyConserved ==
  /\ balance + OpenStakes
       = INITIAL_BALANCE + totalDeposited - totalWithdrawn + referralData.totalEarnings
           + SettledPnl
  /\ balance >= 0

\* a trade placed, won and settled, and money moved in or out besides
C29_WonAndMoved ==
  /\ \E i \in 1 .. Len(settled) : settled[i].payout > 0
  /\ totalDeposited + totalWithdrawn + referralData.totalEarnings > 0

Ids(seq) == {seq[i].id : i \in 1 .. Len(seq)}
Occurrences(seq, id) == Cardinality({i \in 1 .. Len(seq) : seq[i].id = id})

\* the step is a TICK at which the trade is due
Due(trade) == ticks' = ticks + 1 /\ clock' >= trade.openTime + trade.expirySeconds * 1000

\* CALL and exit > entry, or PUT and exit < entry, at the price of the asset
\* after the step
Wins(trade) ==
  IF trade.direction = "CALL" THEN liveAssets'[trade.assetId].price > trade.entryPrice
  ELSE liveAssets'[trade.assetId].price < trade.entryPrice

\* after the step no id is in both lists, none was settled twice, and
\* closedTrades holds at most 50 records
ListsApart ==
  /\ Ids(openTrades') \cap Ids(closedTrades') = {}
  /\ \A id \in Ids(settled') : Occurrences(settled', id) = 1
  /\ \A id \in Ids(closedTrades') : Occurrences(closedTrades', id) = 1
  /\ Len(closedTrades') <= MAX_CLOSED_TRADES

\* C30: a placed trade stays in openTrades over every step that is not a
\* TICK at or after its expiry; the first such TICK removes it from
\* openTrades and leaves one record with its id in closedTrades, a win if
\* and only if CALL and exit > entry or PUT and exit < entry at that TICK's
\* price; no id is in both lists or settled twice, and closedTrades holds at
\* most 50 records
C30_SettledOnceAndListed ==
  [][/\ ListsApart
     /\ \A i \in 1 .. Len(openTrades) :
          LET trade == openTrades[i]
          IN IF Due(trade)
             THEN /\ trade.id \notin Ids(openTrades')
                  /\ trade.id \notin Ids(closedTrades)
                  /\ Occurrences(closedTrades', trade.id) = 1
                  /\ \A j \in 1 .. Len(closedTrades') :
                       closedTrades'[j].id = trade.id =>
                         (closedTrades'[j].payout > 0 <=> Wins(trade))
             ELSE \E j \in 1 .. Len(openTrades') : openTrades'[j] = trade]_vars

\* the trades after the i-th in openTrades that are due at the step
DueAfter(i) == Cardinality({j \in i + 1 .. Len(openTrades) : Due(openTrades[j])})

\* C30 (amended): as above, the record being appended to the history of
\* settlements exactly once, and being in closedTrades after the TICK if and
\* only if fewer than 50 trades later in openTrades are due at the same TICK
C30_SettledOnce ==
  [][/\ ListsApart
     /\ \A i \in 1 .. Len(openTrades) :
          LET trade == openTrades[i]
          IN IF Due(trade)
             THEN /\ trade.id \notin Ids(openTrades')
                  /\ trade.id \notin Ids(settled)
                  /\ Occurrences(settled', trade.id) = 1
                  /\ \A j \in 1 .. Len(settled') :
                       settled'[j].id = trade.id =>
                         /\ settled'[j].payout > 0 <=> Wins(trade)
                         /\ settled'[j].payout =
                              (IF Wins(trade)
                               THEN MulDiv(trade.amount, trade.payoutFactor, 100)
                               ELSE 0 - trade.amount)
                  /\ trade.id \in Ids(closedTrades') <=> DueAfter(i) < MAX_CLOSED_TRADES
             ELSE \E j \in 1 .. Len(openTrades') : openTrades'[j] = trade]_vars

\* 51 trades settled by one TICK, of which closedTrades holds the last 50
C30_HistoryCut ==
  /\ Len(settled) > Len(closedTrades)
  /\ Len(closedTrades) = MAX_CLOSED_TRADES

====
